---- MODULE Spec2Model ----
(***************************************************************************)
(* Signature assignment and document reconstruction engine of              *)
(* SMART-SIGN-PRO (services/excelService.ts).                              *)
(*                                                                         *)
(* Text is modelled as a sequence of one-character strings, so that the    *)
(* string operations of the code (split, trim, regular expressions,        *)
(* parseInt, case folding) are computed and not assumed.  A Hangul         *)
(* syllable is written by its code point ("uC131" is U+C131).              *)
(***************************************************************************)
EXTENDS Integers, Sequences, FiniteSets, TLC

\* ------------------------------------------------------------------ text

Upper == <<"A","B","C","D","E","F","G","H","I","J","K","L","M",
           "N","O","P","Q","R","S","T","U","V","W","X","Y","Z">>
Lower == <<"a","b","c","d","e","f","g","h","i","j","k","l","m",
           "n","o","p","q","r","s","t","u","v","w","x","y","z">>
Digit == <<"0","1","2","3","4","5","6","7","8","9">>
\* U+AC00..U+D7A3 as far as the model's documents use it
Hangul == {"uC131","uBA85","uC774","uB984","uC9C1","uC6D0","uAE09","uD64D","uAE38","uB3D9"}
\* what the class [\s\u00A0\uFEFF] matches, as far as the model's documents use it
WhiteSpace == {" ", "u00A0", "uFEFF"}

Range(s) == {s[i] : i \in DOMAIN s}
IndexOf(s, c) == CHOOSE i \in DOMAIN s : s[i] = c
IsUpper(c) == c \in Range(Upper)
IsLower(c) == c \in Range(Lower)
IsLetter(c) == IsUpper(c) \/ IsLower(c)
IsDigit(c) == c \in Range(Digit)
IsSpace(c) == c \in WhiteSpace
NotSpace(c) == ~IsSpace(c)

UpperChar(c) == IF IsLower(c) THEN Upper[IndexOf(Lower, c)] ELSE c
LowerChar(c) == IF IsUpper(c) THEN Lower[IndexOf(Upper, c)] ELSE c
toUpperCase(s) == [i \in DOMAIN s |-> UpperChar(s[i])]
toLowerCase(s) == [i \in DOMAIN s |-> LowerChar(s[i])]

\* s.replace(/[\s\u00A0\uFEFF]+/g, '')
StripSpace(s) == SelectSeq(s, NotSpace)

RECURSIVE TrimLeft(_)
TrimLeft(s) == IF s # <<>> /\ IsSpace(Head(s)) THEN TrimLeft(Tail(s)) ELSE s
RECURSIVE TrimRight(_)
TrimRight(s) ==
  IF s # <<>> /\ IsSpace(s[Len(s)]) THEN TrimRight(SubSeq(s, 1, Len(s) - 1)) ELSE s
\* s.trim()
Trim(s) == TrimRight(TrimLeft(s))

\* s.split(ch): the pieces between the occurrences of ch, <<s>> when there is none
\* (k, the position of the first ch, is computed once)
RECURSIVE Split(_, _)
Split(s, ch) ==
  IF \A i \in DOMAIN s : s[i] # ch
  THEN <<s>>
  ELSE CHOOSE pieces \in
         {<<SubSeq(s, 1, k - 1)>> \o Split(SubSeq(s, k + 1, Len(s)), ch) :
            k \in {CHOOSE i \in DOMAIN s : s[i] = ch /\ \A j \in 1..(i - 1) : s[j] # ch}} : TRUE

\* parseInt(s, 10) of a string of decimal digits
RECURSIVE parseInt(_)
parseInt(s) ==
  IF s = <<>> THEN 0
  ELSE parseInt(SubSeq(s, 1, Len(s) - 1)) * 10 + (IndexOf(Digit, s[Len(s)]) - 1)

\* the decimal digits of n >= 0, as the template literal `${n}` writes them
RECURSIVE IntToStr(_)
IntToStr(n) ==
  IF n < 10 THEN <<Digit[n + 1]>> ELSE IntToStr(n \div 10) \o <<Digit[(n % 10) + 1]>>

\* s.match(/^([A-Z]+)(\d+)$/i): the split point between letters and digits, 0 for no match
CellRefSplit(s) ==
  LET ks == {k \in 1..(Len(s) - 1) :
               /\ \A i \in 1..k : IsLetter(s[i])
               /\ \A i \in (k + 1)..Len(s) : IsDigit(s[i])}
  IN  IF ks = {} THEN 0 ELSE CHOOSE k \in ks : TRUE

\* excelUtils.columnLetterToNumber: "A" -> 1, "Z" -> 26, "AA" -> 27
RECURSIVE columnLetterToNumber(_)
columnLetterToNumber(s) ==
  IF s = <<>> THEN 0
  ELSE columnLetterToNumber(SubSeq(s, 1, Len(s) - 1)) * 26 + IndexOf(Upper, s[Len(s)])

NoPos == [ok |-> FALSE, row |-> 0, col |-> 0]

\* excelUtils.parseCellAddress: "A1" -> {row: 1, col: 1}, null for anything else
\* (a, the address in upper case, and k, the split between its letters and digits, are
\* computed once)
parseCellAddress(addr) ==
  CHOOSE pos \in
    {IF k = 0 THEN NoPos
     ELSE [ok |-> TRUE,
           row |-> parseInt(SubSeq(a, k + 1, Len(a))),
           col |-> columnLetterToNumber(SubSeq(a, 1, k))] :
       <<a, k>> \in {<<toUpperCase(v), CellRefSplit(toUpperCase(v))>> : v \in {addr}}} : TRUE

\* excelUtils.SIGNATURE_PLACEHOLDERS ("u25CB" is the circle U+25CB)
SIGNATURE_PLACEHOLDERS ==
  {<<"1">>, <<"(","1",")">>, <<"1",".">>, <<"1",")">>, <<"o">>, <<"o",")">>, <<"u25CB">>}

\* excelUtils.isSignaturePlaceholder
isSignaturePlaceholder(s) == s \in SIGNATURE_PLACEHOLDERS

\* ------------------------------------------------------------ normalizeName

OpenBracket == {"(", "[", "{"}
CloseBracket == {")", "]", "}"}

\* the characters "." of a regular expression does not match ("\n" and "\r" here)
LineTerminator == {"\n", "\r"}

\* name.replace(/[\(\[\{].*?[\)\]\}]/g, ''): from the first opening bracket that has a
\* closing bracket after it on the same line up to the nearest closing bracket,
\* repeated on the rest
RECURSIVE RemoveBracketed(_)
RemoveBracketed(s) ==
  LET opens == {i \in DOMAIN s :
                  /\ s[i] \in OpenBracket
                  /\ \E j \in (i + 1)..Len(s) :
                       /\ s[j] \in CloseBracket
                       /\ \A y \in (i + 1)..(j - 1) : s[y] \notin LineTerminator}
  IN  IF opens = {} THEN s
      ELSE LET i == CHOOSE x \in opens : \A y \in opens : x <= y
               j == CHOOSE x \in (i + 1)..Len(s) :
                      s[x] \in CloseBracket /\ \A y \in (i + 1)..(x - 1) : s[y] \notin CloseBracket
           IN  SubSeq(s, 1, i - 1) \o RemoveBracketed(SubSeq(s, j + 1, Len(s)))

IsNameChar(c) == IsLetter(c) \/ IsDigit(c) \/ c \in Hangul

normalizeName(name) ==
  IF name = <<>> THEN <<>>
  ELSE toLowerCase(SelectSeq(RemoveBracketed(name), IsNameChar))

\* ------------------------------------------------------- merged-cell ranges

\* the two addresses of a range string "A1:B2", as `const [start, end] = range.split(':')`
\* and parseCellAddress give them; a missing end parses to null
RangeStart(range) == parseCellAddress(Split(range, ":")[1])
RangeEnd(range) ==
  LET parts == Split(range, ":")
  IN  IF Len(parts) < 2 THEN NoPos ELSE parseCellAddress(parts[2])

\* the last column of a range is taken not to belong to it
isCellInMergedRange_ExclusiveEnd(row, col, mergedCells) ==
  \E n \in DOMAIN mergedCells :
    LET startPos == RangeStart(mergedCells[n])
        endPos == RangeEnd(mergedCells[n])
    IN  /\ startPos.ok /\ endPos.ok
        /\ row >= startPos.row /\ row <= endPos.row
        /\ col >= startPos.col /\ col < endPos.col
isCellInMergedRange(row, col, mergedCells) ==
  \E n \in DOMAIN mergedCells :
    LET startPos == RangeStart(mergedCells[n])
        endPos == RangeEnd(mergedCells[n])
    IN  /\ startPos.ok /\ endPos.ok
        /\ row >= startPos.row /\ row <= endPos.row
        /\ col >= startPos.col /\ col <= endPos.col

isTopLeftOfMergedCell(row, col, mergedCells) ==
  \E n \in DOMAIN mergedCells :
    LET startPos == RangeStart(mergedCells[n])
    IN  startPos.ok /\ startPos.row = row /\ startPos.col = col

\* ------------------------------------------------------------ parseExcelFile

MAX_ROWS == 10000
MAX_CONSECUTIVE_EMPTY_ROWS == 100

\* A worksheet as the library hands it over: grid[r][c] is the text of the cell in row r,
\* column c (what getCellValueAsString returns for it), merges the merged range strings
\* and printArea the print-area string, <<>> when none is set.
NoPrintArea == <<>>

\* row.eachCell({includeEmpty: true}, ...): one CellData for each cell of the row
RowCells(grid, r) == [c \in DOMAIN grid[r] |-> [value |-> grid[r][c], row |-> r, col |-> c]]

RowHasContent(grid, r) == \E c \in DOMAIN grid[r] : Trim(grid[r][c]) # <<>>

\* the callback without the test of consecutiveEmptyCount at its head
RowCallback_NoEmptyGuard(grid, r, st) ==
  IF st.totalRowCount >= MAX_ROWS
  THEN st
  ELSE IF RowHasContent(grid, r)
  THEN [rows |-> Append(st.rows, [index |-> r, cells |-> RowCells(grid, r)]),
        consecutiveEmptyCount |-> 0,
        totalRowCount |-> st.totalRowCount + 1]
  ELSE [rows |-> IF st.consecutiveEmptyCount + 1 <= MAX_CONSECUTIVE_EMPTY_ROWS
                 THEN Append(st.rows, [index |-> r, cells |-> RowCells(grid, r)])
                 ELSE st.rows,
        consecutiveEmptyCount |-> st.consecutiveEmptyCount + 1,
        totalRowCount |-> st.totalRowCount]
\* lines 166-197: the callback of worksheet.eachRow for row r, with the infinite-row
\* protection: st carries rows, consecutiveEmptyCount and totalRowCount from row to row
RowCallback(grid, r, st) ==
  IF st.totalRowCount >= MAX_ROWS \/ st.consecutiveEmptyCount > MAX_CONSECUTIVE_EMPTY_ROWS
  THEN st
  ELSE IF RowHasContent(grid, r)
  THEN [rows |-> Append(st.rows, [index |-> r, cells |-> RowCells(grid, r)]),
        consecutiveEmptyCount |-> 0,
        totalRowCount |-> st.totalRowCount + 1]
  ELSE [rows |-> IF st.consecutiveEmptyCount + 1 <= MAX_CONSECUTIVE_EMPTY_ROWS
                 THEN Append(st.rows, [index |-> r, cells |-> RowCells(grid, r)])
                 ELSE st.rows,
        consecutiveEmptyCount |-> st.consecutiveEmptyCount + 1,
        totalRowCount |-> st.totalRowCount]

\* worksheet.eachRow({includeEmpty: true}, ...): the callback on rows lo..hi in row
\* order (the rows are halved, and st is evaluated before the rows after it, so
\* that long sheets do not nest the evaluation deeply)
RECURSIVE EachRow(_, _, _, _)
EachRow(grid, lo, hi, st) ==
  IF lo > hi \/ st.totalRowCount < 0 THEN st
  ELSE IF lo = hi THEN RowCallback(grid, lo, st)
  ELSE LET mid == (lo + hi) \div 2
       IN  EachRow(grid, mid + 1, hi, EachRow(grid, lo, mid, st))

\* the SheetData parseExcelFile returns for a loaded worksheet that has rows
parseExcelFile(doc) ==
  [rows |-> EachRow(doc.grid, 1, Len(doc.grid),
                    [rows |-> <<>>, consecutiveEmptyCount |-> 0, totalRowCount |-> 0]).rows,
   mergedCells |-> doc.merges,
   printArea |-> doc.printArea]

\* lines 144-156 and 199-201: the four failures of parseExcelFile, in the order the
\* code tests them, and the model it returns otherwise
ParseResult_NoRowCheck(buffer) ==
  IF buffer.byteLength = 0 THEN [error |-> "EmptyBuffer", sheetData |-> <<>>]
  ELSE IF ~buffer.valid THEN [error |-> "LoadFailed", sheetData |-> <<>>]
  ELSE IF Len(buffer.sheets) = 0 THEN [error |-> "NoWorksheet", sheetData |-> <<>>]
  ELSE [error |-> "none", sheetData |-> parseExcelFile(buffer.sheets[1])]
ParseResult(buffer) ==
  IF buffer.byteLength = 0 THEN [error |-> "EmptyBuffer", sheetData |-> <<>>]
  ELSE IF ~buffer.valid THEN [error |-> "LoadFailed", sheetData |-> <<>>]
  ELSE IF Len(buffer.sheets) = 0 THEN [error |-> "NoWorksheet", sheetData |-> <<>>]
  ELSE IF Len(parseExcelFile(buffer.sheets[1]).rows) = 0
  THEN [error |-> "NoData", sheetData |-> <<>>]
  ELSE [error |-> "none", sheetData |-> parseExcelFile(buffer.sheets[1])]

\* --------------------------------------------------------- autoMatchSignatures

\* /(...|...)/i alternatives of the name-header test; the Hangul words are written by
\* their code points: uC131 uBA85, uC774 uB984, name, person, employee, uC9C1 uC6D0, uC9C1 uAE09
NameHeaderWords ==
  {<<"uC131","uBA85">>, <<"uC774","uB984">>, <<"n","a","m","e">>,
   <<"p","e","r","s","o","n">>, <<"e","m","p","l","o","y","e","e">>,
   <<"uC9C1","uC6D0">>, <<"uC9C1","uAE09">>}

Contains(s, w) == \E i \in 0..(Len(s) - Len(w)) : SubSeq(s, i + 1, i + Len(w)) = w

\* the test of one cell in the name-column search
IsNameHeader(value) ==
  /\ value # <<>>
  /\ Trim(value) # <<>>
  /\ \E w \in NameHeaderWords : Contains(toLowerCase(StripSpace(Trim(value))), w)

MAX_HEADER_SEARCH == 50
Min(a, b) == IF a <= b THEN a ELSE b

\* the search starts in column B of the first row
NameColumnNotFound_ColumnB == [nameColIndex |-> 2, headerRowIndex |-> 0]
\* nameColIndex and headerRowIndex before the search (lines 242-243)
NameColumnNotFound == [nameColIndex |-> -1, headerRowIndex |-> -1]

\* every row is searched
HeaderSearchRows_All(n) == n
\* MAX_HEADER_SEARCH_ROWS for a model of n rows (line 244)
HeaderSearchRows(n) == Min(MAX_HEADER_SEARCH, n)

\* the name-column search: nameColIndex and the 0-based headerRowIndex of the first
\* matching cell in row-major order, -1 and -1 when no cell matches
FindNameColumn(sheetData) ==
  LET MAX_HEADER_SEARCH_ROWS == HeaderSearchRows(Len(sheetData.rows))
      found == {rk \in UNION {{<<r, k>> : k \in DOMAIN sheetData.rows[r].cells} :
                                r \in 1..MAX_HEADER_SEARCH_ROWS} :
                  IsNameHeader(sheetData.rows[rk[1]].cells[rk[2]].value)}
  IN  IF found = {} THEN NameColumnNotFound
      ELSE LET first == CHOOSE x \in found :
                          \A y \in found : x[1] < y[1] \/ (x[1] = y[1] /\ x[2] <= y[2])
           IN  [nameColIndex |-> sheetData.rows[first[1]].cells[first[2]].col,
                headerRowIndex |-> first[1] - 1]

\* A Map<string, SignatureAssignment> in insertion order: a sequence of [key, value]
MapKeys(m) == {m[n].key : n \in DOMAIN m}
MapSet(m, k, v) ==
  IF k \in MapKeys(m)
  THEN [n \in DOMAIN m |-> IF m[n].key = k THEN [key |-> k, value |-> v] ELSE m[n]]
  ELSE Append(m, [key |-> k, value |-> v])

\* `${cell.row}:${cell.col}`
CellKey(row, col) == IntToStr(row) \o <<":">> \o IntToStr(col)

\* Math.random() takes the values x / RandDen for x in RandNums; a tape is the sequence of
\* the values successive calls return.
RandDen == 100
RandNums == {0, RandDen - 1}
\* the product rounded up instead of down
RandomFloor_Ceiling(x, n) == (x * n + RandDen - 1) \div RandDen
\* Math.floor(Math.random() * n) when Math.random() returns x / RandDen
RandomFloor(x, n) == (x * n) \div RandDen

\* the merge check of lines 297-302 left out
IsMatchCell_NoMergeCheck(cell, nameColIndex, mergedCells) ==
  /\ cell.col # nameColIndex
  /\ cell.value # <<>>
  /\ isSignaturePlaceholder(StripSpace(cell.value))
\* the cells of a data row that get an assignment (lines 290-302)
IsMatchCell(cell, nameColIndex, mergedCells) ==
  /\ cell.col # nameColIndex
  /\ cell.value # <<>>
  /\ isSignaturePlaceholder(StripSpace(cell.value))
  /\ ~(/\ isCellInMergedRange(cell.row, cell.col, mergedCells)
       /\ ~isTopLeftOfMergedCell(cell.row, cell.col, mergedCells))

\* the chosen entry carries a variant id the pool does not hold
SelectSig_UnknownVariant(availableSigs, x) == [availableSigs[1] EXCEPT !.variant = "none"]
\* the variant chosen for one cell (lines 306-307)
SelectSig(availableSigs, x) == availableSigs[RandomFloor(x, Len(availableSigs)) + 1]

\* the assignment of one cell from five successive draws (lines 306-324); scale is kept
\* in thousandths
NewAssignment(cell, cleanName, availableSigs, tape, d) ==
  [row |-> cell.row,
   col |-> cell.col,
   signatureBaseName |-> cleanName,
   signatureVariantId |-> SelectSig(availableSigs, tape[d + 1]).variant,
   rotation |-> RandomFloor(tape[d + 2], 11) - 5,
   scale |-> 950 + (tape[d + 3] * 150) \div RandDen,
   offsetX |-> RandomFloor(tape[d + 4], 9) - 4,
   offsetY |-> RandomFloor(tape[d + 5], 5) - 2]

\* the inner loop over the cells of one row; acc carries the assignments and the number
\* of Math.random() calls made so far (the test of acc.draws, which is never negative,
\* has acc evaluated before the cells after it)
RECURSIVE MatchCells(_, _, _, _, _, _, _)
MatchCells(cells, k, nameColIndex, cleanName, availableSigs, ctx, acc) ==
  IF k > Len(cells) \/ acc.draws < 0 THEN acc
  ELSE IF ~IsMatchCell(cells[k], nameColIndex, ctx.mergedCells)
  THEN MatchCells(cells, k + 1, nameColIndex, cleanName, availableSigs, ctx, acc)
  ELSE MatchCells(cells, k + 1, nameColIndex, cleanName, availableSigs, ctx,
                  [assignments |->
                     MapSet(acc.assignments, CellKey(cells[k].row, cells[k].col),
                            NewAssignment(cells[k], cleanName, availableSigs,
                                          ctx.tape, acc.draws)),
                   draws |-> acc.draws + 5])

\* row.cells.find(c => c.col === nameColIndex), <<>> for undefined
FindNameCell(row, nameColIndex) ==
  LET ks == {k \in DOMAIN row.cells : row.cells[k].col = nameColIndex}
  IN  IF ks = {} THEN <<>>
      ELSE <<row.cells[CHOOSE k \in ks : \A j \in ks : k <= j]>>

\* the pool list of a data row's name, <<>> when the row is skipped (lines 277-288)
RowSigs(row, nameColIndex, signatures) ==
  LET nameCell == FindNameCell(row, nameColIndex)
  IN  IF nameCell = <<>> \/ nameCell[1].value = <<>> THEN <<>>
      ELSE LET cleanName == normalizeName(nameCell[1].value)
           IN  IF cleanName = <<>> \/ cleanName \notin DOMAIN signatures THEN <<>>
               ELSE signatures[cleanName]

\* the outer loop over the data rows, r the 1-based position in sheetData.rows
RECURSIVE MatchRows(_, _, _, _, _, _)
MatchRows(sheetData, signatures, r, nameColIndex, tape, acc) ==
  IF r > Len(sheetData.rows) \/ acc.draws < 0 THEN acc
  ELSE LET row == sheetData.rows[r]
           availableSigs == RowSigs(row, nameColIndex, signatures)
       IN  IF Len(availableSigs) = 0
           THEN MatchRows(sheetData, signatures, r + 1, nameColIndex, tape, acc)
           ELSE MatchRows(sheetData, signatures, r + 1, nameColIndex, tape,
                          MatchCells(row.cells, 1, nameColIndex,
                                     normalizeName(FindNameCell(row, nameColIndex)[1].value),
                                     availableSigs,
                                     [mergedCells |-> sheetData.mergedCells, tape |-> tape],
                                     acc))

\* signatures is a function from normalized names to sequences of SignatureFile
autoMatchSignatures(sheetData, signatures, tape) ==
  IF Len(sheetData.rows) = 0 THEN <<>>
  ELSE IF DOMAIN signatures = {} THEN <<>>
  ELSE LET f == FindNameColumn(sheetData)
       IN  IF f.nameColIndex = -1 THEN <<>>
           ELSE MatchRows(sheetData, signatures, f.headerRowIndex + 2, f.nameColIndex, tape,
                          [assignments |-> <<>>, draws |-> 0]).assignments

\* --------------------------------------------------------- generateFinalExcel

\* The loaded worksheet: cells maps <<row, col>> to [value, styled] (value <<>> is null),
\* merges is worksheet.model.merges, printArea is worksheet.pageSetup.printArea and
\* images the anchored images in insertion order.
LoadWorksheet(doc) ==
  [cells |-> [rc \in UNION {{<<r, c>> : c \in DOMAIN doc.grid[r]} : r \in DOMAIN doc.grid}
                |-> [value |-> doc.grid[rc[1]][rc[2]], styled |-> TRUE]],
   merges |-> doc.merges,
   printArea |-> doc.printArea,
   images |-> <<>>]

CellValue(ws, row, col) ==
  IF <<row, col>> \in DOMAIN ws.cells THEN ws.cells[<<row, col>>].value ELSE <<>>

\* worksheet.actualRowCount / actualColumnCount: the number of rows (columns) that hold
\* a value
actualRowCount(ws) ==
  Cardinality({rc[1] : rc \in {x \in DOMAIN ws.cells : ws.cells[x].value # <<>>}})
actualColumnCount(ws) ==
  Cardinality({rc[2] : rc \in {x \in DOMAIN ws.cells : ws.cells[x].value # <<>>}})

isValidPrintAreaRange(tlRow, brRow, tlCol, brCol) ==
  /\ tlRow > 0 /\ brRow > 0 /\ tlCol > 0 /\ brCol > 0
  /\ tlRow <= brRow /\ tlCol <= brCol

NotDollar(c) == c # "$"

\* the defaults of printAreaRows and printAreaCols (lines 448-449)
DefaultPrintArea(ws) ==
  [rows |-> [start |-> 1, end |-> IF actualRowCount(ws) = 0 THEN 1000 ELSE actualRowCount(ws)],
   cols |-> [start |-> 1,
             end |-> IF actualColumnCount(ws) = 0 THEN 26 ELSE actualColumnCount(ws)]]

\* printAreaRows and printAreaCols after the parse of the print-area string (lines 451-511);
\* parts, the pieces of the range around ":", is computed once
ParsePrintArea(originalPrintArea, ws) ==
  IF originalPrintArea = NoPrintArea THEN DefaultPrintArea(ws)
  ELSE
    LET afterSheet ==
          IF "!" \in Range(originalPrintArea)
          THEN LET ps == Split(originalPrintArea, "!")
               IN  IF ps[Len(ps)] = <<>> THEN originalPrintArea ELSE ps[Len(ps)]
          ELSE originalPrintArea
    IN  CHOOSE area \in
          {IF Len(parts) = 2
           THEN LET topLeft == Trim(parts[1])
                    bottomRight == Trim(parts[2])
                    tk == CellRefSplit(topLeft)
                    bk == CellRefSplit(bottomRight)
                IN  IF tk # 0 /\ bk # 0
                    THEN LET tlCol == columnLetterToNumber(toUpperCase(SubSeq(topLeft, 1, tk)))
                             brCol == columnLetterToNumber(toUpperCase(SubSeq(bottomRight, 1, bk)))
                             tlRow == parseInt(SubSeq(topLeft, tk + 1, Len(topLeft)))
                             brRow == parseInt(SubSeq(bottomRight, bk + 1, Len(bottomRight)))
                         IN  IF isValidPrintAreaRange(tlRow, brRow, tlCol, brCol)
                             THEN [rows |-> [start |-> tlRow, end |-> brRow],
                                   cols |-> [start |-> tlCol, end |-> brCol]]
                             ELSE DefaultPrintArea(ws)
                    ELSE DefaultPrintArea(ws)
           ELSE IF Len(parts) = 1 /\ Trim(parts[1]) # <<>>
           THEN LET one == Trim(parts[1])
                    ck == CellRefSplit(one)
                IN  IF ck # 0
                    THEN LET col == columnLetterToNumber(toUpperCase(SubSeq(one, 1, ck)))
                             row == parseInt(SubSeq(one, ck + 1, Len(one)))
                         IN  [rows |-> [start |-> row, end |-> row],
                              cols |-> [start |-> col, end |-> col]]
                    ELSE DefaultPrintArea(ws)
           ELSE DefaultPrintArea(ws) :
             parts \in {Split(SelectSeq(afterSheet, NotDollar), ":")}} : TRUE

\* every position is taken to be inside
isInPrintArea_Everywhere(pa, row, col) == TRUE
isInPrintArea(pa, row, col) ==
  /\ row >= pa.rows.start /\ row <= pa.rows.end
  /\ col >= pa.cols.start /\ col <= pa.cols.end

canPlaceSignature(row, col, originalMergedCells) ==
  IF isCellInMergedRange(row, col, originalMergedCells)
  THEN isTopLeftOfMergedCell(row, col, originalMergedCells)
  ELSE TRUE

\* findSigFile: list?.find(s => s.variant === variant), <<>> for undefined
findSigFile(signaturesMap, name, variant) ==
  IF name \notin DOMAIN signaturesMap THEN <<>>
  ELSE LET list == signaturesMap[name]
           ks == {k \in DOMAIN list : list[k].variant = variant}
       IN  IF ks = {} THEN <<>> ELSE <<list[CHOOSE k \in ks : \A j \in ks : k <= j]>>

\* `${sigFile.variant}_rot${assignment.rotation}`
CacheKey(variant, rotation) == <<variant, "_rot", rotation>>

CHUNK_SIZE == 15
EMU_PER_PIXEL == 9525
Max(a, b) == IF a >= b THEN a ELSE b

\* ------------------------------------------------------------------ inputs

Tx == <<"x">>
TName == <<"N","a","m","e">>
TKim == <<"K","i","m">>
TLee == <<"L","e","e"," ","(","A",")">>
T1 == <<"1">>
TP1 == <<"(","1",")">>
TS1 == <<" ","1">>
TDot == <<"1",".">>
TO == <<"o">>

\* header in row 1, name column B, two people
GridBasic ==
  << <<Tx, TName, Tx, Tx>>,
     <<Tx, TKim, T1, TP1>>,
     <<Tx, TLee, TS1, Tx>> >>
\* name column A, one person with three placeholders
GridCyclic ==
  << <<TName, Tx, Tx, Tx>>,
     <<TKim, T1, TDot, TO>> >>
\* a ledger of four rows; with the merge C2:D2 the cell D2 shows the text of C2
GridLedger ==
  << <<Tx, TName, Tx, Tx>>,
     <<Tx, TKim, T1, T1>>,
     <<Tx, TLee, Tx, T1>>,
     <<Tx, TKim, T1, Tx>> >>

MergeInputs ==
  { <<>>,
    << <<"C","2",":","D","2">> >>,
    << <<"C","2",":","D","2">>, <<"A","3",":","A","4">> >> }

PrintAreaInputs ==
  { NoPrintArea,
    <<"A","1",":","D","3">>,
    <<"$","A","$","1",":","$","C","$","4">>,
    <<"S","h","e","e","t","1","!","$","A","$","1",":","$","D","$","4">>,
    <<"C","3",":","D","4">>,
    <<"C","2">>,
    <<"D","4",":","A","1">>,
    <<"A","1",":","B","2","&","&","A","3",":","B","4">> }

\* a ledger whose second row is blank: three rows, two of them populated
GridSparse ==
  << <<Tx, TName, Tx, Tx>>,
     << <<>>, <<>>, <<>>, <<>> >>,
     <<Tx, TKim, T1, Tx>> >>

\* a ledger with a header row and sixteen data rows, one placeholder each, so that a
\* run has more assignments than one chunk of the main loop
GridLong == [r \in 1..17 |-> IF r = 1 THEN <<TName, Tx>> ELSE <<TKim, T1>>]

LedgerDocs ==
  {[grid |-> GridLedger, merges |-> m, printArea |-> pa] :
     m \in MergeInputs, pa \in PrintAreaInputs}
  \cup {[grid |-> GridSparse, merges |-> <<>>, printArea |-> NoPrintArea],
         [grid |-> GridLong, merges |-> <<>>, printArea |-> NoPrintArea]}

SigFile(name, variant) ==
  [name |-> name, variant |-> variant, previewUrl |-> <<"blob:", variant>>,
   width |-> 300, height |-> 100]

\* a signature whose previewUrl is not a blob URL
StaleSigFile(name, variant) ==
  [SigFile(name, variant) EXCEPT !.previewUrl = <<"data:", variant>>]

Pool ==
  (<<"k","i","m">> :> <<SigFile(<<"k","i","m">>, "kim_1"), SigFile(<<"k","i","m">>, "kim_2")>>)
  @@ (<<"l","e","e">> :> <<SigFile(<<"l","e","e">>, "lee_1")>>)
  @@ (<<"p","a","r","k">> :> <<StaleSigFile(<<"p","a","r","k">>, "park_1")>>)
EmptyPool == <<>>

\* an assignment map that autoMatchSignatures did not produce: a non-anchor cell of the
\* merge C2:D2, a variant that is not in the pool, one (variant, rotation) pair used
\* three times, and a signature whose previewUrl is not a blob URL
Manual(row, col, name, variant) ==
  [key |-> CellKey(row, col),
   value |-> [row |-> row, col |-> col, signatureBaseName |-> name,
              signatureVariantId |-> variant, rotation |-> 0, scale |-> 1000,
              offsetX |-> 0, offsetY |-> 0]]
ManualMap ==
  <<Manual(2, 3, <<"k","i","m">>, "kim_1"), Manual(2, 4, <<"k","i","m">>, "kim_1"),
    Manual(3, 4, <<"k","i","m">>, "kim_9"), Manual(4, 3, <<"k","i","m">>, "kim_1"),
    Manual(3, 3, <<"p","a","r","k">>, "park_1")>>

ConstTape(x) == [n \in 1..100 |-> x]

\* the assignment maps a run is started with
AssignmentInputs(doc) ==
  {autoMatchSignatures(parseExcelFile(doc), Pool, ConstTape(x)) : x \in RandNums}
    \cup {ManualMap}

Buffer(doc) == [byteLength |-> 5000, valid |-> TRUE, sheets |-> <<doc>>]
BadBuffers ==
  {[byteLength |-> 0, valid |-> FALSE, sheets |-> <<>>],
   [byteLength |-> 10, valid |-> FALSE, sheets |-> <<>>],
   [byteLength |-> 5000, valid |-> TRUE, sheets |-> <<>>]}

\* ------------------------------------------------------------------- state

VARIABLES
  originalBuffer,  \* the source bytes: byteLength, whether the container loads, its sheets
  sheetData,       \* the model parseExcelFile built from the source
  signatures,      \* the signature pool
  assignments,     \* the assignment map
  pc,              \* where the run stands
  worksheet,       \* the worksheet of the run's own workbook
  media,           \* the images registered in the workbook; an image id is a position
  snapshot,        \* originalMergedCells, originalPrintArea and the parsed print area
  imageCache,      \* cache key -> image id
  counts,          \* processedCount, failureCount, skippedCount
  i,               \* index of the main loop
  yielded,         \* the setTimeout of this index has resumed
  pending,         \* the rotateImage call the run awaits
  restoreCounts,   \* reappliedCount, alreadyMergedCount, errorCount
  result,          \* what the run returned or threw
  renders,         \* history: the rotateImage invocations, with what became of each
  outcomes,        \* history: the counter each pass of the main loop ended with
  faults,          \* number of library calls that have failed
  suspended        \* the local variables of a second run that waits at an await, or NoRun

vars == <<originalBuffer, sheetData, signatures, assignments, pc, worksheet, media,
          snapshot, imageCache, counts, i, yielded, pending, restoreCounts, result,
          renders, outcomes, faults, suspended>>

\* at most MaxFaults library calls fail in one run
MaxFaults == 2

EmptySheet == [rows |-> <<>>, mergedCells |-> <<>>, printArea |-> NoPrintArea]
NoWorksheet == [cells |-> <<>>, merges |-> <<>>, printArea |-> NoPrintArea, images |-> <<>>]
NoSnapshot ==
  [originalMergedCells |-> <<>>, originalPrintArea |-> NoPrintArea,
   printArea |-> [rows |-> [start |-> 0, end |-> 0], cols |-> [start |-> 0, end |-> 0]]]
NoPending == <<>>
NoRun == <<>>
NoResult == [kind |-> "none"]

\* the state a run of generateFinalExcel starts in
RunStart ==
  /\ worksheet = NoWorksheet
  /\ media = <<>>
  /\ snapshot = NoSnapshot
  /\ imageCache = <<>>
  /\ counts = [processedCount |-> 0, failureCount |-> 0, skippedCount |-> 0]
  /\ i = 0
  /\ yielded = FALSE
  /\ pending = NoPending
  /\ restoreCounts = [reappliedCount |-> 0, alreadyMergedCount |-> 0, errorCount |-> 0]
  /\ result = NoResult
  /\ renders = <<>>
  /\ outcomes = <<>>
  /\ faults = 0

Init ==
  /\ \/ \E doc \in LedgerDocs :
          /\ originalBuffer = Buffer(doc)
          /\ sheetData = parseExcelFile(doc)
          /\ assignments \in AssignmentInputs(doc)
     \/ /\ originalBuffer \in BadBuffers
        /\ sheetData = EmptySheet
        /\ assignments = ManualMap
  /\ signatures = Pool
  /\ pc = "start"
  /\ RunStart
  /\ suspended = NoRun

Throw(error) ==
  /\ pc' = "thrown"
  /\ result' = [kind |-> "error", error |-> error]

\* lines 409-427: the fatal preconditions and the load into a fresh workbook
Load ==
  /\ pc = "start"
  /\ IF originalBuffer.byteLength = 0
     THEN Throw("EmptyBuffer") /\ UNCHANGED worksheet
     ELSE IF ~originalBuffer.valid
     THEN Throw("LoadFailed") /\ UNCHANGED worksheet
     ELSE IF Len(originalBuffer.sheets) = 0
     THEN Throw("NoWorksheet") /\ UNCHANGED worksheet
     ELSE /\ worksheet' = LoadWorksheet(originalBuffer.sheets[1])
          /\ pc' = "loaded"
          /\ UNCHANGED result
  /\ UNCHANGED <<originalBuffer, suspended, sheetData, signatures, assignments, media, snapshot,
                 imageCache, counts, i, yielded, pending, restoreCounts, renders,
                 outcomes, faults>>

\* lines 431-511: the snapshot of merges and print area, and the print-area parse
Snapshot ==
  /\ pc = "loaded"
  /\ snapshot' = [originalMergedCells |-> worksheet.merges,
                  originalPrintArea |-> worksheet.printArea,
                  printArea |-> ParsePrintArea(worksheet.printArea, worksheet)]
  /\ pc' = "prepass"
  /\ UNCHANGED <<originalBuffer, suspended, sheetData, signatures, assignments, worksheet, media,
                 imageCache, counts, i, yielded, pending, restoreCounts, result, renders,
                 outcomes, faults>>

\* the pre-pass clears nothing
PrePassLoop_Nothing(m, n, snap, st) == st
\* lines 549-578: the body of the pre-pass loop for the assignment under key; st carries
\* the cells and skippedCount
PrePassStep(key, snap, st) ==
  LET parts == Split(key, ":")
      row == parseInt(parts[1])
      col == IF Len(parts) < 2 THEN 0 ELSE parseInt(parts[2])
  IN  IF ~isInPrintArea(snap.printArea, row, col)
      THEN [st EXCEPT !.skippedCount = @ + 1]
      ELSE IF ~canPlaceSignature(row, col, snap.originalMergedCells)
      THEN [st EXCEPT !.skippedCount = @ + 1]
      ELSE IF /\ <<row, col>> \in DOMAIN st.cells
              /\ isSignaturePlaceholder(StripSpace(st.cells[<<row, col>>].value))
      THEN [st EXCEPT !.cells[<<row, col>>].value = <<>>]
      ELSE st

\* lines 548-579: the loop that clears the placeholder text, from the n-th assignment on
\* (the state after one assignment is evaluated before the loop goes on with it)
RECURSIVE PrePassLoop(_, _, _, _)
PrePassLoop(m, n, snap, st) ==
  IF n > Len(m) THEN st
  ELSE CHOOSE end \in {PrePassLoop(m, n + 1, snap, next) :
                         next \in {PrePassStep(m[n].key, snap, st)}} : TRUE

PrePass ==
  /\ pc = "prepass"
  /\ LET st == PrePassLoop(assignments, 1, snapshot,
                           [cells |-> worksheet.cells, skippedCount |-> counts.skippedCount])
     IN  /\ worksheet' = [worksheet EXCEPT !.cells = st.cells]
         /\ counts' = [counts EXCEPT !.skippedCount = st.skippedCount]
  /\ pc' = "main"
  /\ UNCHANGED <<originalBuffer, suspended, sheetData, signatures, assignments, media, snapshot,
                 imageCache, i, yielded, pending, restoreCounts, result, renders,
                 outcomes, faults>>

\* a lookup that never finds the key
CacheGet_Miss(cache, key) == <<>>
\* imageCache.get(cacheKey), <<>> for undefined (line 619)
CacheGet(cache, key) == IF key \in DOMAIN cache THEN <<cache[key]>> ELSE <<>>
\* imageCache.set(cacheKey, imageId) (line 647)
CacheSet(cache, key, imageId) == (key :> imageId) @@ cache

\* a failed pass ends the loop
ContinueLoop_BreakOnFailure(counter, idx, n) ==
  IF counter = "failureCount" THEN n ELSE idx + 1
\* the loop moves on by two after every assignment
ContinueLoop_SkipNext(counter, idx, n) == idx + 2
\* where the loop goes after a pass that incremented counter and ended in `continue`,
\* fell through a catch or reached the end of the body: the next index (n is the number
\* of assignments)
ContinueLoop(counter, idx, n) == idx + 1

\* the end of one pass of the loop body: the counter that was incremented, the new
\* number of failed library calls, and the next index
Finish(counter, f) ==
  /\ counts' = [counts EXCEPT ![counter] = @ + 1]
  /\ outcomes' = Append(outcomes, [index |-> i, counter |-> counter])
  /\ i' = ContinueLoop(counter, i, Len(assignments))
  /\ yielded' = FALSE
  /\ pending' = NoPending
  /\ pc' = "main"
  /\ faults' = f

\* the anchor worksheet.addImage is given (lines 666-708)
Anchor(a, imageId) ==
  [imageId |-> imageId,
   col |-> a.col - 1,
   row |-> a.row - 1,
   nativeColOff |-> Max(0, (5 + a.offsetX) * EMU_PER_PIXEL),
   nativeRowOff |-> Max(0, (2 + a.offsetY) * EMU_PER_PIXEL)]

\* the elements of seq at the positions that are not in drop
RECURSIVE Without(_, _, _)
Without(seq, drop, n) ==
  IF n > Len(seq) THEN <<>>
  ELSE (IF n \in drop THEN <<>> ELSE <<seq[n]>>) \o Without(seq, drop, n + 1)

\* lines 664-723: the image is anchored, or worksheet.addImage throws; an insertion may
\* drop merge declarations and the print area of the worksheet
PlaceImage(a, imageId, f) ==
  IF a.row - 1 < 0 \/ a.col - 1 < 0
  THEN UNCHANGED worksheet /\ Finish("failureCount", f)
  ELSE \/ /\ f < MaxFaults
          /\ UNCHANGED worksheet
          /\ Finish("failureCount", f + 1)
       \/ \E drop \in SUBSET DOMAIN worksheet.merges, keepPrintArea \in BOOLEAN :
            /\ worksheet' =
                 [worksheet EXCEPT !.images = Append(@, Anchor(a, imageId)),
                                   !.merges = Without(@, drop, 1),
                                   !.printArea = IF keepPrintArea THEN @ ELSE NoPrintArea]
            /\ Finish("processedCount", f)

\* line 589: the cooperative yield before every CHUNK_SIZE-th index
Yield ==
  /\ pc = "main"
  /\ i < Len(assignments)
  /\ i % CHUNK_SIZE = 0
  /\ ~yielded
  /\ yielded' = TRUE
  /\ UNCHANGED <<originalBuffer, suspended, sheetData, signatures, assignments, pc, worksheet, media,
                 snapshot, imageCache, counts, i, pending, restoreCounts, result, renders,
                 outcomes, faults>>

\* lines 593-624 and 659-723: one pass of the loop body up to the call of rotateImage,
\* or to its end when no image has to be rendered
Body ==
  /\ pc = "main"
  /\ i < Len(assignments)
  /\ i % CHUNK_SIZE # 0 \/ yielded
  /\ LET a == assignments[i + 1].value
         sigFile == findSigFile(signatures, a.signatureBaseName, a.signatureVariantId)
     IN  IF ~isInPrintArea(snapshot.printArea, a.row, a.col)
         THEN Finish("skippedCount", faults) /\ UNCHANGED <<worksheet, renders>>
         ELSE IF ~canPlaceSignature(a.row, a.col, snapshot.originalMergedCells)
         THEN Finish("skippedCount", faults) /\ UNCHANGED <<worksheet, renders>>
         ELSE IF sigFile = <<>>
         THEN Finish("failureCount", faults) /\ UNCHANGED <<worksheet, renders>>
         ELSE LET cacheKey == CacheKey(sigFile[1].variant, a.rotation)
                  imageId == CacheGet(imageCache, cacheKey)
              IN  IF imageId = <<>>
                  THEN /\ pending' = [cacheKey |-> cacheKey, sigFile |-> sigFile[1]]
                       /\ renders' = Append(renders, [cacheKey |-> cacheKey, cached |-> FALSE])
                       /\ pc' = "render"
                       /\ UNCHANGED <<worksheet, counts, i, yielded, outcomes, faults>>
                  ELSE PlaceImage(a, imageId[1], faults) /\ UNCHANGED renders
  /\ UNCHANGED <<originalBuffer, suspended, sheetData, signatures, assignments, media, snapshot,
                 imageCache, restoreCounts, result>>

\* the data URL of a rendered bitmap, as a sequence of its parts
DataUrl(variant, normalizedDegrees) ==
  <<"data:image/png;base64", ",", variant, "@">> \o IntToStr(normalizedDegrees)

\* blobUrl && blobUrl.startsWith('blob:')
IsBlobUrl(blobUrl) == blobUrl # <<>> /\ Head(blobUrl) = "blob:"

\* What the browser does with one rotateImage call: whether the image loads ("load",
\* "error" or "abort"), its decoded size, whether getContext('2d') gives a context,
\* whether drawing or encoding throws, and the length of the encoded data URL.
RenderEnv(load, width, height, ctx, throws, encodedLength) ==
  [load |-> load, width |-> width, height |-> height, ctx |-> ctx, throws |-> throws,
   encodedLength |-> encodedLength]
OkEnv == RenderEnv("load", 300, 100, TRUE, FALSE, 5000)
\* no image decode ever fires load, error or abort
RenderEnvs_NeverFires == {}
RenderEnvs ==
  {OkEnv,
   RenderEnv("error", 0, 0, TRUE, FALSE, 0),
   RenderEnv("abort", 0, 0, TRUE, FALSE, 0),
   RenderEnv("load", 0, 100, TRUE, FALSE, 0),
   RenderEnv("load", 300, 100, FALSE, FALSE, 0),
   RenderEnv("load", 1600, 40000, TRUE, FALSE, 0),
   RenderEnv("load", 300, 100, TRUE, TRUE, 0),
   RenderEnv("load", 300, 100, TRUE, FALSE, 50)}

MAX_WIDTH == 800
MAX_CANVAS == 16384

\* |cos| and |sin| of a whole number of degrees, in thousandths, for the rotations
\* autoMatchSignatures draws (-5 .. 5, normalized to 0 .. 5 and 355 .. 359)
TrigDegrees(normalizedDegrees) ==
  IF normalizedDegrees > 180 THEN 360 - normalizedDegrees ELSE normalizedDegrees
AbsCosMilli(normalizedDegrees) ==
  <<1000, 1000, 999, 999, 998, 996>>[TrigDegrees(normalizedDegrees) + 1]
AbsSinMilli(normalizedDegrees) ==
  <<0, 17, 35, 52, 70, 87>>[TrigDegrees(normalizedDegrees) + 1]

\* canvas.width and canvas.height (lines 73-90)
CanvasSize(env, normalizedDegrees) ==
  LET drawWidth == IF env.width > MAX_WIDTH THEN MAX_WIDTH ELSE env.width
      drawHeight == IF env.width > MAX_WIDTH
                    THEN (env.height * MAX_WIDTH) \div env.width ELSE env.height
      absCos == AbsCosMilli(normalizedDegrees)
      absSin == AbsSinMilli(normalizedDegrees)
  IN  [width |-> Max(1, (drawWidth * absCos + drawHeight * absSin + 500) \div 1000),
       height |-> Max(1, (drawWidth * absSin + drawHeight * absCos + 500) \div 1000)]

\* what rotateImage resolves to (lines 48-137) when the browser behaves as env
rotateImage(blobUrl, degrees, env) ==
  IF ~IsBlobUrl(blobUrl) THEN <<>>
  ELSE IF env.load # "load" THEN <<>>
  ELSE IF env.width = 0 \/ env.height = 0 THEN <<>>
  ELSE IF ~env.ctx THEN blobUrl
  ELSE LET normalizedDegrees == ((degrees % 360) + 360) % 360
           canvas == CanvasSize(env, normalizedDegrees)
       IN  IF canvas.width > MAX_CANVAS \/ canvas.height > MAX_CANVAS THEN <<>>
           ELSE IF env.throws THEN <<>>
           ELSE IF env.encodedLength < 100 THEN <<>>
           ELSE DataUrl(blobUrl[2], normalizedDegrees)

\* line 622: the awaited rotateImage call resolves.  For a URL that is no blob URL the
\* browser is not involved; any other behaviour than OkEnv is a failed library call.
RenderResolve ==
  /\ pc = "render"
  /\ LET a == assignments[i + 1].value
         blobUrl == pending.sigFile.previewUrl
     IN  \E env \in IF IsBlobUrl(blobUrl) THEN RenderEnvs ELSE {OkEnv} :
           /\ env # OkEnv => faults < MaxFaults
           /\ faults' = IF env # OkEnv THEN faults + 1 ELSE faults
           /\ pending' = [cacheKey |-> pending.cacheKey, sigFile |-> pending.sigFile,
                          env |-> env,
                          rotatedDataUrl |-> rotateImage(blobUrl, a.rotation, env)]
  /\ pc' = "rendered"
  /\ UNCHANGED <<originalBuffer, suspended, sheetData, signatures, assignments, worksheet, media,
                 snapshot, imageCache, counts, i, yielded, restoreCounts, result, renders,
                 outcomes>>

\* lines 624-723: the resolved value is checked, the image is registered, cached and
\* anchored
RenderDone ==
  /\ pc = "rendered"
  /\ LET a == assignments[i + 1].value
         rotatedDataUrl == pending.rotatedDataUrl
         parts == Split(rotatedDataUrl, ",")
         base64Clean == IF Len(parts) > 1 THEN parts[2] ELSE parts[1]
     IN  IF rotatedDataUrl = <<>>
         THEN /\ Finish("failureCount", faults)
              /\ UNCHANGED <<worksheet, media, imageCache, renders>>
         ELSE IF base64Clean = <<>>
         THEN /\ Finish("failureCount", faults)
              /\ UNCHANGED <<worksheet, media, imageCache, renders>>
         ELSE \/ /\ faults < MaxFaults
                 /\ Finish("failureCount", faults + 1)
                 /\ UNCHANGED <<worksheet, media, imageCache, renders>>
              \/ /\ media' = Append(media, base64Clean)
                 /\ imageCache' = CacheSet(imageCache, pending.cacheKey, Len(media))
                 /\ renders' = [renders EXCEPT ![Len(renders)].cached = TRUE]
                 /\ PlaceImage(a, Len(media), faults)
  /\ UNCHANGED <<originalBuffer, suspended, sheetData, signatures, assignments, snapshot,
                 restoreCounts, result>>

\* line 586: the loop ends
MainDone ==
  /\ pc = "main"
  /\ i >= Len(assignments)
  /\ pc' = "restore"
  /\ UNCHANGED <<originalBuffer, suspended, sheetData, signatures, assignments, worksheet, media,
                 snapshot, imageCache, counts, i, yielded, pending, restoreCounts, result,
                 renders, outcomes, faults>>

\* range.toUpperCase().replace(/[\s$]/g, '')
NotSpaceNorDollar(c) == ~IsSpace(c) /\ c # "$"
normalizeMergeRange(range) == SelectSeq(toUpperCase(range), NotSpaceNorDollar)

\* every range is taken to be merged already
NeedsReapply_Never(normalizedCurrentMerges, mergeRange) == FALSE
\* line 767: the range is not among the current merges
NeedsReapply(normalizedCurrentMerges, mergeRange) ==
  normalizeMergeRange(mergeRange) \notin normalizedCurrentMerges

\* the ranges of seq at the positions in keep, in order
RECURSIVE Only(_, _, _)
Only(seq, keep, n) ==
  IF n > Len(seq) THEN <<>>
  ELSE (IF n \in keep THEN <<seq[n]>> ELSE <<>>) \o Only(seq, keep, n + 1)

\* a range whose re-application threw is not counted
RestoreCounts_ErrorsDropped(n, todo, failing) ==
  [reappliedCount |-> Cardinality(todo \ failing),
   alreadyMergedCount |-> n - Cardinality(todo),
   errorCount |-> 0]
\* lines 764-781: the counters when the loop over the n snapshot ranges ends, todo being
\* the ranges not among the current merges and failing those whose mergeCells threw
RestoreCounts(n, todo, failing) ==
  [reappliedCount |-> Cardinality(todo \ failing),
   alreadyMergedCount |-> n - Cardinality(todo),
   errorCount |-> Cardinality(failing)]

\* lines 742-817: every snapshot range that is not among the current merges is merged
\* again; worksheet.mergeCells throws for the ranges in failing.  The final check that
\* follows only logs.
Restore ==
  /\ pc = "restore"
  /\ LET original == snapshot.originalMergedCells
         normalizedCurrentMerges == {normalizeMergeRange(m) : m \in Range(worksheet.merges)}
         todo == {n \in DOMAIN original : NeedsReapply(normalizedCurrentMerges, original[n])}
     IN  \E failing \in SUBSET todo :
           /\ faults + Cardinality(failing) <= MaxFaults
           /\ faults' = faults + Cardinality(failing)
           /\ worksheet' = [worksheet EXCEPT !.merges = @ \o Only(original, todo \ failing, 1)]
           /\ restoreCounts' = RestoreCounts(Len(original), todo, failing)
  /\ pc' = "clear"
  /\ UNCHANGED <<originalBuffer, suspended, sheetData, signatures, assignments, media, snapshot,
                 imageCache, counts, i, yielded, pending, result, renders, outcomes>>

Cleared == [value |-> <<>>, styled |-> FALSE]

\* lines 828-846: the rows after the print area that hold a value lose value and style
ClearRows(ws, pa) ==
  LET currentRowCount == actualRowCount(ws)
      rows == {r \in (pa.rows.end + 1)..currentRowCount :
                 \E rc \in DOMAIN ws.cells : rc[1] = r /\ ws.cells[rc].value # <<>>}
  IN  [ws EXCEPT !.cells = [rc \in DOMAIN ws.cells |->
                              IF rc[1] \in rows THEN Cleared ELSE ws.cells[rc]]]

\* the last column of the print area is cleared with the columns right of it
ClearCols_FromLastColumn(ws, pa) ==
  LET currentColCount == actualColumnCount(ws)
  IN  [ws EXCEPT !.cells = [rc \in DOMAIN ws.cells |->
                              IF /\ rc[1] >= 1 /\ rc[1] <= pa.rows.end
                                 /\ rc[2] >= pa.cols.end /\ rc[2] <= currentColCount
                                 /\ ws.cells[rc].value # <<>>
                              THEN Cleared ELSE ws.cells[rc]]]
\* lines 849-867: in the rows of the print area, the cells right of it that hold a value
\* lose value and style
ClearCols(ws, pa) ==
  LET currentColCount == actualColumnCount(ws)
  IN  [ws EXCEPT !.cells = [rc \in DOMAIN ws.cells |->
                              IF /\ rc[1] >= 1 /\ rc[1] <= pa.rows.end
                                 /\ rc[2] >= pa.cols.end + 1 /\ rc[2] <= currentColCount
                                 /\ ws.cells[rc].value # <<>>
                              THEN Cleared ELSE ws.cells[rc]]]

\* Step 3.5 (lines 820-872)
ClearOutside ==
  /\ pc = "clear"
  /\ worksheet' = IF snapshot.originalPrintArea = NoPrintArea THEN worksheet
                  ELSE ClearCols(ClearRows(worksheet, snapshot.printArea), snapshot.printArea)
  /\ pc' = "save"
  /\ UNCHANGED <<originalBuffer, suspended, sheetData, signatures, assignments, media, snapshot,
                 imageCache, counts, i, yielded, pending, restoreCounts, result, renders,
                 outcomes, faults>>

\* what workbook.xlsx.writeBuffer() can hand back: a buffer of some length that starts
\* with the bytes head, or <<>> when it throws
WriteBufferResults ==
  {<<>>} \cup {<<[byteLength |-> n, head |-> h]>> :
                 n \in {0, 50, 5000}, h \in {<<80, 75>>, <<60, 63>>}}

\* Step 4 (lines 875-919): serialization and the checks of the buffer
Save ==
  /\ pc = "save"
  /\ \E written \in WriteBufferResults :
       IF written = <<>>
       THEN Throw("SaveFailed")
       ELSE LET buffer == written[1]
                isZip == buffer.byteLength >= 2 /\ buffer.head[1] = 80 /\ buffer.head[2] = 75
            IN  IF buffer.byteLength = 0 THEN Throw("SaveFailed")
                ELSE IF buffer.byteLength < 100 THEN Throw("SaveFailed")
                ELSE /\ pc' = "done"
                     /\ result' = [kind |-> "blob", size |-> buffer.byteLength, isZip |-> isZip,
                                   merges |-> worksheet.merges,
                                   printArea |-> worksheet.printArea]
  /\ UNCHANGED <<originalBuffer, suspended, sheetData, signatures, assignments, worksheet, media,
                 snapshot, imageCache, counts, i, yielded, pending, restoreCounts, renders,
                 outcomes, faults>>

Next ==
  \/ Load
  \/ Snapshot
  \/ PrePass
  \/ Yield
  \/ Body
  \/ RenderResolve
  \/ RenderDone
  \/ MainDone
  \/ Restore
  \/ ClearOutside
  \/ Save

Spec == Init /\ [][Next]_vars

\* ------------------------------------------- autoMatchSignatures on its own

BasicDoc(merges, printArea) == [grid |-> GridBasic, merges |-> merges, printArea |-> printArea]
CyclicDoc == [grid |-> GridCyclic, merges |-> <<>>, printArea |-> NoPrintArea]

\* no cell holds a name-header word; row 2 has a pooled name and a placeholder
GridNoHeader ==
  << <<Tx, Tx, Tx, Tx>>,
     <<Tx, TKim, T1, Tx>> >>
\* the only name-header word is in row 51, a pooled name and a placeholder in row 52
GridLateHeader ==
  [r \in 1..52 |-> IF r = 51 THEN <<TName, Tx>>
                   ELSE IF r = 52 THEN <<TKim, T1>> ELSE <<Tx, Tx>>]
\* name-header words in B1, C1 and, in an earlier column of a later row, A2
GridTwoHeaders ==
  << <<Tx, TName, TName, Tx>>,
     <<TName, TKim, T1, T1>> >>
PlainDoc(grid) == [grid |-> grid, merges |-> <<>>, printArea |-> NoPrintArea]

KimPool ==
  (<<"k","i","m">> :> <<SigFile(<<"k","i","m">>, "kim_1"), SigFile(<<"k","i","m">>, "kim_2")>>)

\* a worksheet without any row, and one whose rows hold no text
GridNoRows == <<>>
GridOnlyEmptyRows == << <<<<>>, <<>>>>, <<<<>>, <<" ">>>> >>

\* the uploaded files and the pools autoMatchSignatures is called with
MatchInputs ==
  {<<Buffer(BasicDoc(<<>>, NoPrintArea)), KimPool>>,
   <<Buffer(BasicDoc(<< <<"C","2",":","D","2">> >>, NoPrintArea)), Pool>>,
   <<Buffer(BasicDoc(<< <<"C","2",":","D","2">> >>, <<"A","1",":","D","2">>)), Pool>>,
   <<Buffer(CyclicDoc), KimPool>>,
   <<Buffer(CyclicDoc), EmptyPool>>,
   <<Buffer(PlainDoc(GridNoHeader)), KimPool>>,
   <<Buffer(PlainDoc(GridLateHeader)), KimPool>>,
   <<Buffer(PlainDoc(GridTwoHeaders)), KimPool>>,
   <<Buffer(PlainDoc(GridNoRows)), KimPool>>,
   <<Buffer(PlainDoc(GridOnlyEmptyRows)), KimPool>>}
  \cup {<<b, KimPool>> : b \in BadBuffers}

\* the number of Math.random() calls of one autoMatchSignatures call
TapeLength(sheet, pool) == 5 * Len(autoMatchSignatures(sheet, pool, ConstTape(0)))

\* The tapes of length len that are explored: the draws for the variant and for the
\* rotation of every cell are free; the three draws for scale, offsetX and offsetY of
\* one cell, which nothing in autoMatchSignatures relates, are taken equal.
Tapes(len) ==
  {[j \in 1..len |->
      LET k == ((j - 1) \div 5) + 1
          pos == ((j - 1) % 5) + 1
      IN  IF pos <= 2 THEN c[k][pos] ELSE c[k][3]] :
     c \in [1..(len \div 5) -> RandNums \X RandNums \X RandNums]}

InitMatch ==
  /\ \E in \in MatchInputs :
       /\ originalBuffer = in[1]
       /\ signatures = in[2]
  /\ sheetData = EmptySheet
  /\ assignments = <<>>
  /\ pc = "parse"
  /\ RunStart
  /\ suspended = NoRun

\* lines 143-217: parseExcelFile called on the uploaded bytes; a failure is thrown to
\* the caller and no model is stored
ParseFile ==
  /\ pc = "parse"
  /\ LET parsed == ParseResult(originalBuffer)
     IN  IF parsed.error # "none"
         THEN Throw(parsed.error) /\ UNCHANGED sheetData
         ELSE /\ sheetData' = parsed.sheetData
              /\ pc' = "match"
              /\ UNCHANGED result
  /\ UNCHANGED <<originalBuffer, suspended, signatures, assignments, worksheet, media, snapshot,
                 imageCache, counts, i, yielded, pending, restoreCounts, renders,
                 outcomes, faults>>

\* one call of autoMatchSignatures, for every outcome of its random draws
AutoMatch ==
  /\ pc = "match"
  /\ \E tape \in Tapes(TapeLength(sheetData, signatures)) :
       assignments' = autoMatchSignatures(sheetData, signatures, tape)
  /\ pc' = "matched"
  /\ UNCHANGED <<originalBuffer, suspended, sheetData, signatures, worksheet, media, snapshot,
                 imageCache, counts, i, yielded, pending, restoreCounts, result, renders,
                 outcomes, faults>>

NextMatch == ParseFile \/ AutoMatch

SpecMatch == InitMatch /\ [][NextMatch]_vars

\* ------------------------------------------------------------------ properties

\* the position (1-based row and column) of the n-th anchored image
ImageAt(n) == <<worksheet.images[n].row + 1, worksheet.images[n].col + 1>>

\* the rectangle one area of a print-area declaration covers (an optional sheet name,
\* $ signs, a range or a single cell, the corners in either order), <<>> for no rectangle
AreaOf(text) ==
  LET ps == Split(text, "!")
      range == SelectSeq(ps[Len(ps)], NotDollar)
      parts == Split(range, ":")
      first == Trim(parts[1])
      last == Trim(parts[Len(parts)])
      fk == CellRefSplit(first)
      lk == CellRefSplit(last)
  IN  IF Len(parts) > 2 \/ fk = 0 \/ lk = 0 THEN <<>>
      ELSE LET r1 == parseInt(SubSeq(first, fk + 1, Len(first)))
               r2 == parseInt(SubSeq(last, lk + 1, Len(last)))
               c1 == columnLetterToNumber(toUpperCase(SubSeq(first, 1, fk)))
               c2 == columnLetterToNumber(toUpperCase(SubSeq(last, 1, lk)))
           IN  <<[rows |-> [start |-> Min(r1, r2), end |-> Max(r1, r2)],
                  cols |-> [start |-> Min(c1, c2), end |-> Max(c1, c2)]]>>

\* the rectangles of a print-area declaration; its areas are separated by "&&"
DeclaredAreas(printArea) ==
  {AreaOf(p)[1] : p \in {q \in Range(Split(printArea, "&")) : q # <<>> /\ AreaOf(q) # <<>>}}

InArea(a, row, col) ==
  /\ a.rows.start <= row /\ row <= a.rows.end
  /\ a.cols.start <= col /\ col <= a.cols.end

\* (row, col) is inside the declared print area; every cell is when none is declared
InDeclaredPrintArea(printArea, row, col) ==
  \/ printArea = NoPrintArea
  \/ \E a \in DeclaredAreas(printArea) : InArea(a, row, col)

\* (row, col) is a cell of a merged range other than its top-left cell
NonAnchorOfMerge(row, col, mergedCells) ==
  \E n \in DOMAIN mergedCells :
    LET parts == Split(normalizeMergeRange(mergedCells[n]), ":")
        tl == parseCellAddress(parts[1])
        br == parseCellAddress(parts[Len(parts)])
    IN  /\ tl.ok /\ br.ok
        /\ tl.row <= row /\ row <= br.row
        /\ tl.col <= col /\ col <= br.col
        /\ <<row, col>> # <<tl.row, tl.col>>

\* C1: an image is inserted at (row, col) only if (row, col) lies inside the declared
\* print area and is not a non-anchor cell of a merged range of the snapshot.
C1_PlacementLegality ==
  \A n \in DOMAIN worksheet.images :
    /\ InDeclaredPrintArea(snapshot.originalPrintArea, ImageAt(n)[1], ImageAt(n)[2])
    /\ ~NonAnchorOfMerge(ImageAt(n)[1], ImageAt(n)[2], snapshot.originalMergedCells)

\* the positions in the assignment map of the assignments of row r, in cell order
RowAssignments(r) == {n \in DOMAIN assignments : assignments[n].value.row = r}
\* the number of variants in the pool list of the name of the n-th assignment
VariantCount(n) == Len(signatures[assignments[n].value.signatureBaseName])
\* the 0-based place of the n-th assignment among the assignments of its row
PlaceInRow(n) ==
  Cardinality({m \in RowAssignments(assignments[n].value.row) : m < n})

\* C2: in a row with no more assigned placeholder cells than variants, the assigned
\* variant ids are pairwise distinct, for every outcome of the random draws.
C2_AntiRepeat ==
  pc = "matched" =>
    \A m, n \in DOMAIN assignments :
      (/\ m < n
       /\ assignments[m].value.row = assignments[n].value.row
       /\ Cardinality(RowAssignments(assignments[n].value.row)) <= VariantCount(n))
      => assignments[m].value.signatureVariantId # assignments[n].value.signatureVariantId

\* C3: in a row with more assigned placeholder cells than its V variants, the first V
\* assignments and every later aligned block of V consecutive assignments use each
\* variant at most once.
C3_CyclicReuse ==
  pc = "matched" =>
    \A m, n \in DOMAIN assignments :
      (/\ m < n
       /\ assignments[m].value.row = assignments[n].value.row
       /\ Cardinality(RowAssignments(assignments[n].value.row)) > VariantCount(n)
       /\ PlaceInRow(m) \div VariantCount(n) = PlaceInRow(n) \div VariantCount(n))
      => assignments[m].value.signatureVariantId # assignments[n].value.signatureVariantId

\* C4 (as amended): once a render for a (variant, rotation) pair has been registered
\* and cached, rotateImage is not invoked for that pair again in the run.
C4_NoRenderAfterCached ==
  \A m, n \in DOMAIN renders :
    (m < n /\ renders[m].cacheKey = renders[n].cacheKey) => ~renders[m].cached

\* C4 (as stated): rotateImage is invoked at most once for every (variant, rotation)
\* pair, whatever the outcome of the first render.
C4_RenderAtMostOnce ==
  \A m, n \in DOMAIN renders : renders[m].cacheKey = renders[n].cacheKey => m = n

\* C4 witness: the first render of a pair failed, the second was cached, a third
\* assignment of the same pair was placed without another render (the third render
\* is the failed one of another signature).
C4_Witness ==
  /\ pc = "restore"
  /\ Len(renders) = 3
  /\ renders[1].cacheKey = renders[2].cacheKey
  /\ ~renders[1].cached /\ renders[2].cached
  /\ counts.processedCount = 2

\* the restoration step of the run is over
AfterRestore ==
  \/ pc \in {"clear", "save", "done"}
  \/ pc = "thrown" /\ result.error = "SaveFailed"

\* the ranges of the snapshot that are not among the merges of the worksheet
MissingMerges ==
  {n \in DOMAIN snapshot.originalMergedCells :
     \A k \in DOMAIN worksheet.merges :
       normalizeMergeRange(worksheet.merges[k])
         # normalizeMergeRange(snapshot.originalMergedCells[n])}

\* C5 (as amended): after the restoration step the worksheet holds every range of the
\* snapshot except those whose re-application threw, and the number of its merges is N
\* minus the number of those errors.
C5_MergesRestoredUpToErrors ==
  AfterRestore =>
    /\ Cardinality(MissingMerges) = restoreCounts.errorCount
    /\ Len(worksheet.merges) = Len(snapshot.originalMergedCells) - restoreCounts.errorCount

\* C5 (as stated): after the restoration step the worksheet holds every range of the
\* snapshot and the number of its merges is N.
C5_MergePreservation ==
  AfterRestore =>
    /\ MissingMerges = {}
    /\ Len(worksheet.merges) = Len(snapshot.originalMergedCells)

\* C5 witness: two merges, both dropped by image insertions, one merged again and one
\* whose re-application threw.
C5_Witness ==
  /\ pc = "clear"
  /\ Len(snapshot.originalMergedCells) = 2
  /\ Len(worksheet.images) >= 1
  /\ restoreCounts.reappliedCount = 1
  /\ restoreCounts.errorCount = 1
  /\ Len(worksheet.merges) = 1

\* C6: the print-area string of the serialized document equals the one snapshotted at
\* load, also when the image insertions changed or dropped it.
C6_PrintAreaPreserved ==
  pc = "done" => result.printArea = snapshot.originalPrintArea

\* C8: a run never returns a buffer that is empty, shorter than the minimum size or does
\* not start with the ZIP magic number.
C8_ReturnedBufferValid ==
  (pc = "done" /\ result.kind = "blob") => (result.size >= 100 /\ result.isZip)

\* the cells (row, col) of the data rows below the header whose row has a name with a
\* non-empty pool list, that are not the name cell, whose stripped text is a placeholder
\* and that are not a non-anchor cell of a merge
PlaceholderCells ==
  LET f == FindNameColumn(sheetData)
      rows == sheetData.rows
  IN  IF Len(rows) = 0 \/ f.nameColIndex = -1 THEN {}
      ELSE {<<rows[rk[1]].cells[rk[2]].row, rows[rk[1]].cells[rk[2]].col>> :
              rk \in {x \in UNION {{<<r, k>> : k \in DOMAIN rows[r].cells} : r \in DOMAIN rows} :
                        /\ x[1] > f.headerRowIndex + 1
                        /\ Len(RowSigs(rows[x[1]], f.nameColIndex, signatures)) > 0
                        /\ rows[x[1]].cells[x[2]].col # f.nameColIndex
                        /\ isSignaturePlaceholder(StripSpace(rows[x[1]].cells[x[2]].value))
                        /\ ~NonAnchorOfMerge(rows[x[1]].cells[x[2]].row,
                                             rows[x[1]].cells[x[2]].col,
                                             sheetData.mergedCells)}}

\* the assignment map has one entry for every cell of cells, keyed by its (row, col),
\* and no other entry
AssignsExactly(cells) ==
  /\ {<<assignments[n].value.row, assignments[n].value.col>> : n \in DOMAIN assignments} = cells
  /\ \A n \in DOMAIN assignments :
       assignments[n].key = CellKey(assignments[n].value.row, assignments[n].value.col)
  /\ \A m, n \in DOMAIN assignments : assignments[m].key = assignments[n].key => m = n

\* C7 (as amended): autoMatchSignatures gives exactly one assignment, keyed by (row, col),
\* to every placeholder cell of a data row with a pooled name that is not a non-anchor
\* cell of a merge, whether or not the cell is inside the print area, and to no other
\* cell.
C7_PlaceholdersAssigned ==
  pc = "matched" => AssignsExactly(PlaceholderCells)

\* C7 (as stated): the cells that receive an assignment are the placeholder cells that
\* are legal placement positions, inside the declared print area and not a non-anchor
\* cell of a merge.
C7_LegalPlaceholdersAssigned ==
  pc = "matched" =>
    AssignsExactly({c \in PlaceholderCells :
                      InDeclaredPrintArea(sheetData.printArea, c[1], c[2])})

\* C7 witness: a sheet with the merge C2:D2 and the print area A1:D2; C2 and C3 are
\* assigned and D2, a non-anchor cell, is not.
C7_Witness ==
  /\ pc = "matched"
  /\ sheetData.mergedCells # <<>>
  /\ sheetData.printArea # NoPrintArea
  /\ MapKeys(assignments) = {CellKey(2, 3), CellKey(3, 3)}

\* C9: a run throws only for an empty source buffer, a load failure, a missing worksheet
\* or a failed serialization; every assignment gets its pass of the main loop, in order,
\* whatever the passes before it ended with, and an image is anchored for exactly the
\* passes that ended with processedCount.
C9_PerAssignmentNotFatal ==
  /\ pc = "thrown" =>
       /\ result.error \in {"EmptyBuffer", "LoadFailed", "NoWorksheet", "SaveFailed"}
       /\ result.error # "SaveFailed" => outcomes = <<>>
  /\ \A k \in DOMAIN outcomes : outcomes[k].index = k - 1
  /\ pc \in {"main", "render", "rendered"} => Len(outcomes) = i
  /\ AfterRestore \/ pc = "restore" => Len(outcomes) = Len(assignments)
  /\ Len(worksheet.images)
       = Cardinality({k \in DOMAIN outcomes : outcomes[k].counter = "processedCount"})

\* C9 witness: a finished run in which the first assignment failed in the render or the
\* insertion, the second was rejected, the third had no signature asset, the fourth was
\* placed and the fifth had a signature that could not be rendered.
C9_Witness ==
  /\ pc = "done"
  /\ Len(renders) = 3
  /\ [k \in DOMAIN outcomes |-> outcomes[k].counter]
       = <<"failureCount", "skippedCount", "failureCount", "processedCount",
           "failureCount">>

\* a print area declared as one range or one cell
SingleArea(printArea) ==
  /\ printArea # NoPrintArea
  /\ "&" \notin Range(printArea)
  /\ DeclaredAreas(printArea) # {}
TheArea(printArea) == CHOOSE a \in DeclaredAreas(printArea) : TRUE

\* the text the source document has at (row, col)
OriginalValue(row, col) == CellValue(LoadWorksheet(originalBuffer.sheets[1]), row, col)

\* for every assignment outside the single declared print area: no image is anchored at
\* its position, its pass does not end with failureCount, the pre-pass leaves its text,
\* and the worksheet that is serialized has its text, everywhere or, with onlyAboveLeft,
\* when the cell is not below the last row and not right of the last column of the area
OutsideSkipped(onlyAboveLeft) ==
  SingleArea(snapshot.originalPrintArea) =>
    \A n \in DOMAIN assignments :
      LET a == assignments[n].value
          area == TheArea(snapshot.originalPrintArea)
      IN  ~InArea(area, a.row, a.col) =>
            /\ \A k \in DOMAIN worksheet.images : ImageAt(k) # <<a.row, a.col>>
            /\ \A k \in DOMAIN outcomes :
                 outcomes[k].index = n - 1 => outcomes[k].counter = "skippedCount"
            /\ pc \in {"main", "render", "rendered", "restore", "clear"} =>
                 CellValue(worksheet, a.row, a.col) = OriginalValue(a.row, a.col)
            /\ (/\ pc \in {"save", "done"}
                /\ onlyAboveLeft => (a.row <= area.rows.end /\ a.col <= area.cols.end)) =>
                 CellValue(worksheet, a.row, a.col) = OriginalValue(a.row, a.col)

RenderFails(env, degrees) ==
  \/ env.load # "load"
  \/ env.width = 0 \/ env.height = 0
  \/ ~env.ctx
  \/ CanvasSize(env, ((degrees % 360) + 360) % 360).width > 16384
  \/ CanvasSize(env, ((degrees % 360) + 360) % 360).height > 16384
  \/ env.throws
  \/ env.encodedLength < 100

\* C11: on any render failure (invalid source URL included) rotateImage returns the
\* empty sentinel, and the run then skips the assignment without registering an image
\* in the workbook or the cache.
C11_RenderFailureSkipped ==
  [][(/\ pc = "rendered"
      /\ \/ ~IsBlobUrl(pending.sigFile.previewUrl)
         \/ RenderFails(pending.env, assignments[i + 1].value.rotation))
     => (/\ pending.rotatedDataUrl = <<>>
         /\ media' = media
         /\ imageCache' = imageCache
         /\ worksheet'.images = worksheet.images)]_vars

\* (row, col) is the top-left cell of a merged range
AnchorOfMerge(row, col, mergedCells) ==
  \E n \in DOMAIN mergedCells :
    LET tl == parseCellAddress(Split(normalizeMergeRange(mergedCells[n]), ":")[1])
    IN  tl.ok /\ tl.row = row /\ tl.col = col

\* C12: autoMatchSignatures returns no assignment at a cell of a merged range other
\* than its top-left anchor, and a placeholder at the anchor of a range (in a data row
\* with a pooled name) is assigned.
C12_MergeAnchorsOnly ==
  pc = "matched" =>
    /\ \A n \in DOMAIN assignments :
         ~NonAnchorOfMerge(assignments[n].value.row, assignments[n].value.col,
                           sheetData.mergedCells)
    /\ \A c \in PlaceholderCells :
         AnchorOfMerge(c[1], c[2], sheetData.mergedCells)
           => CellKey(c[1], c[2]) \in MapKeys(assignments)

\* C12 witness: the merge C2:D2 with placeholder text in C2 and D2 and no print area;
\* the anchor C2 is assigned and D2 is not.
C12_Witness ==
  /\ pc = "matched"
  /\ sheetData.mergedCells = << <<"C","2",":","D","2">> >>
  /\ sheetData.printArea = NoPrintArea
  /\ isSignaturePlaceholder(StripSpace(sheetData.rows[2].cells[4].value))
  /\ CellKey(2, 3) \in MapKeys(assignments)
  /\ CellKey(2, 4) \notin MapKeys(assignments)

\* the (row position, cell position) pairs of the cells in the first min(50, number of
\* rows) rows of the model whose text holds a name-header word
HeaderMatches ==
  {rk \in UNION {{<<r, k>> : k \in DOMAIN sheetData.rows[r].cells} :
                   r \in {x \in DOMAIN sheetData.rows : x <= 50}} :
     IsNameHeader(sheetData.rows[rk[1]].cells[rk[2]].value)}

\* C13: when no cell in the scanned header rows matches the name-header vocabulary,
\* autoMatchSignatures returns an empty assignment map.
C13_NoHeaderNoAssignments ==
  (pc = "matched" /\ HeaderMatches = {}) => assignments = <<>>

\* C13 witness: a sheet without a name header whose second row has a pooled name and a
\* placeholder, a pool that is not empty, and the empty map returned.
C13_Witness ==
  /\ pc = "matched"
  /\ Len(sheetData.rows) = 2
  /\ HeaderMatches = {}
  /\ normalizeName(sheetData.rows[2].cells[2].value) \in DOMAIN signatures
  /\ isSignaturePlaceholder(StripSpace(sheetData.rows[2].cells[3].value))
  /\ assignments = <<>>

\* the first header match in row-major order
FirstHeaderMatch ==
  CHOOSE x \in HeaderMatches :
    \A y \in HeaderMatches : x[1] < y[1] \/ (x[1] = y[1] /\ x[2] <= y[2])

\* the text of the cell of model row r in column col, <<>> when the row has none
TextInColumn(r, col) ==
  LET ks == {k \in DOMAIN sheetData.rows[r].cells : sheetData.rows[r].cells[k].col = col}
  IN  IF ks = {} THEN <<>> ELSE sheetData.rows[r].cells[CHOOSE k \in ks : TRUE].value

\* C14: the name column is the column of the first cell, in row-major order, of the
\* first min(50, number of rows) model rows that matches; a header after the 50th row
\* is never selected, and rows at or above the header row receive no assignment.
C14_FirstHeaderInFiftyRows ==
  pc = "matched" =>
    \A n \in DOMAIN assignments :
      /\ HeaderMatches # {}
      /\ \E r \in DOMAIN sheetData.rows :
           /\ r > FirstHeaderMatch[1]
           /\ sheetData.rows[r].index = assignments[n].value.row
           /\ assignments[n].value.signatureBaseName
                = normalizeName(TextInColumn(r, sheetData.rows[FirstHeaderMatch[1]]
                                                  .cells[FirstHeaderMatch[2]].col))

\* C14 witness: header words in B1, C1 and A2; the name column is B and the
\* placeholders of row 2 are assigned to the name in B2.
C14_Witness ==
  /\ pc = "matched"
  /\ Cardinality(HeaderMatches) = 3
  /\ FirstHeaderMatch = <<1, 2>>
  /\ MapKeys(assignments) = {CellKey(2, 3), CellKey(2, 4)}

\* the failure parseExcelFile owes to a file: the first of the four conditions the file
\* fails, "none" when it meets them all (a worksheet keeps a row exactly when it has one)
ParseCondition(buffer) ==
  IF buffer.byteLength = 0 THEN "EmptyBuffer"
  ELSE IF ~buffer.valid THEN "LoadFailed"
  ELSE IF buffer.sheets = <<>> THEN "NoWorksheet"
  ELSE IF buffer.sheets[1].grid = <<>> THEN "NoData"
  ELSE "none"

\* C15: parseExcelFile returns a model only for a non-empty buffer whose container loads,
\* whose first worksheet exists and keeps at least one row; in every other case it throws
\* the failure of the first condition missed and returns nothing; a returned model has
\* at least one row.
C15_ParseReturnsOrThrows ==
  /\ pc \in {"match", "matched"} =>
       /\ ParseCondition(originalBuffer) = "none"
       /\ Len(sheetData.rows) >= 1
  /\ pc = "thrown" =>
       /\ ParseCondition(originalBuffer) # "none"
       /\ result = [kind |-> "error", error |-> ParseCondition(originalBuffer)]
       /\ sheetData = EmptySheet

\* a loadable file whose first worksheet has no row was parsed and refused
C15_Witness ==
  /\ pc = "thrown"
  /\ originalBuffer.byteLength > 0 /\ originalBuffer.valid
  /\ originalBuffer.sheets # <<>>
  /\ result.error = "NoData"

\* ------------------------------------------------- parseExcelFile on its own

\* 10,001 rows, text in every odd row and none in the even rows
GridInterleaved == [r \in 1..10001 |-> IF r % 2 = 1 THEN <<TKim>> ELSE << <<>> >>]

\* every one-column worksheet of at most MaxParseRows rows, each row with or without text
MaxParseRows == 5
SmallGrids ==
  UNION {[1..n -> {<<TKim>>, << <<>> >>}] : n \in 0..MaxParseRows}

\* a row with text, a gap of n rows without text, and a row with text after the gap
GridGap(n) == [r \in 1..(n + 2) |-> IF r = 1 \/ r = n + 2 THEN <<TKim>> ELSE << <<>> >>]
\* gaps around MAX_CONSECUTIVE_EMPTY_ROWS, and a gap that opens the sheet
GapGrids ==
  {GridGap(n) : n \in 99..102} \cup {Tail(GridGap(n)) : n \in 100..101}

\* the files parseExcelFile is called with
ParseInputs ==
  BadBuffers \cup {Buffer(PlainDoc(g)) : g \in SmallGrids \cup GapGrids \cup {GridInterleaved}}

InitParse ==
  /\ originalBuffer \in ParseInputs
  /\ signatures = EmptyPool
  /\ sheetData = EmptySheet
  /\ assignments = <<>>
  /\ pc = "parse"
  /\ RunStart
  /\ suspended = NoRun

NextParse == ParseFile

SpecParse == InitParse /\ [][NextParse]_vars

\* C16: the model parseExcelFile returns has at most MAX_ROWS rows, whatever the mix of
\* rows with and without text in the worksheet.
C16_RowCap ==
  pc = "match" => Len(sheetData.rows) <= MAX_ROWS

\* the worksheet parseExcelFile read, and whether the emitted row e has text
ParsedGrid == originalBuffer.sheets[1].grid
EmittedHasContent(e) == \E c \in DOMAIN e.cells : Trim(e.cells[c].value) # <<>>
\* the rows of the worksheet that end a run of more than MAX_CONSECUTIVE_EMPTY_ROWS rows
\* without text
OverlongRunRows ==
  {r \in DOMAIN ParsedGrid :
     /\ r > MAX_CONSECUTIVE_EMPTY_ROWS
     /\ \A q \in (r - MAX_CONSECUTIVE_EMPTY_ROWS)..r : ~RowHasContent(ParsedGrid, q)}

\* C26: the emitted rows never hold more than MAX_CONSECUTIVE_EMPTY_ROWS rows without
\* text in a row, and no row of the worksheet is emitted from the row on at which a run
\* of rows without text has exceeded MAX_CONSECUTIVE_EMPTY_ROWS, not even one with text.
C26_EmptyRunCutOff ==
  pc = "match" =>
    /\ \A k \in 1..(Len(sheetData.rows) - MAX_CONSECUTIVE_EMPTY_ROWS) :
         \E j \in k..(k + MAX_CONSECUTIVE_EMPTY_ROWS) : EmittedHasContent(sheetData.rows[j])
    /\ \A r \in OverlongRunRows :
         \A k \in DOMAIN sheetData.rows : sheetData.rows[k].index < r

\* a worksheet with text after a run of more than 100 rows without text was parsed: the
\* first row and the first 100 rows of the run were emitted
C26_Witness ==
  /\ pc = "match"
  /\ \E r \in OverlongRunRows : \E q \in (r + 1)..Len(ParsedGrid) : RowHasContent(ParsedGrid, q)
  /\ Len(sheetData.rows) = MAX_CONSECUTIVE_EMPTY_ROWS + 1
  /\ EmittedHasContent(sheetData.rows[1])

\* ------------------------------------------------ App.tsx: handleSignatureUpload

\* s.lastIndexOf(c), counted from 1; 0 when c does not occur
LastIndexOf(s, c) ==
  IF \E k \in DOMAIN s : s[k] = c
  THEN CHOOSE k \in DOMAIN s : s[k] = c /\ \A j \in (k + 1)..Len(s) : s[j] # c
  ELSE 0

\* lines 125-131: the file name without its extension, cut before its last underscore
\* unless that underscore is the first character
BaseNameString(fileName) ==
  LET fileNameNoExt == SubSeq(fileName, 1, LastIndexOf(fileName, ".") - 1)
      lastUnderscoreIdx == LastIndexOf(fileNameNoExt, "_")
  IN  IF lastUnderscoreIdx > 1
      THEN SubSeq(fileNameNoExt, 1, lastUnderscoreIdx - 1)
      ELSE fileNameNoExt

\* newSignatures.get(key) || []
PoolGet(pool, key) == IF key \in DOMAIN pool THEN pool[key] ELSE <<>>

\* newSignatures.set(key, list)
PoolSet(pool, key, list) ==
  [k \in DOMAIN pool \cup {key} |-> IF k = key THEN list ELSE pool[k]]

\* getImageDims: the size of the decoded image, 100 x 50 when it does not load
ImageDims(file) ==
  IF file.loads THEN [w |-> file.width, h |-> file.height] ELSE [w |-> 100, h |-> 50]

\* the upload appends the file although its variant is already in the list
UploadFile_NoDuplicateCheck(pool, file) ==
  IF ~file.isImage \/ file.size > 2 * 1024 * 1024 THEN pool
  ELSE IF ImageDims(file).w = 100 /\ ImageDims(file).h = 50 THEN pool
  ELSE LET baseName == normalizeName(BaseNameString(file.name))
       IN  IF baseName = <<>> THEN pool
           ELSE PoolSet(pool, baseName,
                        Append(PoolGet(pool, baseName),
                               [SigFile(baseName, file.name) EXCEPT
                                  !.width = ImageDims(file).w,
                                  !.height = ImageDims(file).h]))
\* lines 91-160: one iteration of the loop over the chosen files
UploadFile(pool, file) ==
  IF ~file.isImage \/ file.size > 2 * 1024 * 1024 THEN pool
  ELSE IF ImageDims(file).w = 100 /\ ImageDims(file).h = 50 THEN pool
  ELSE LET baseName == normalizeName(BaseNameString(file.name))
           list == PoolGet(pool, baseName)
       IN  IF baseName = <<>> THEN pool
           ELSE IF \E n \in DOMAIN list : list[n].variant = file.name THEN pool
           ELSE PoolSet(pool, baseName,
                        Append(list,
                               [SigFile(baseName, file.name) EXCEPT
                                  !.width = ImageDims(file).w,
                                  !.height = ImageDims(file).h]))

\* lines 91-164: the loop over the chosen files, in order
RECURSIVE UploadFiles(_, _)
UploadFiles(pool, files) ==
  IF files = <<>> THEN pool ELSE UploadFiles(UploadFile(pool, Head(files)), Tail(files))

\* a well-formed image file of the given name
ImageFile(name) ==
  [name |-> name, isImage |-> TRUE, size |-> 40000, loads |-> TRUE,
   width |-> 300, height |-> 100]

\* the pieces base names are put together from, up to two per name: letters in both cases, a Hangul
\* syllable, white space, punctuation, bracketed annotations
NamePieces ==
  {<<"K">>, <<"k">>, <<"uD64D">>, <<" ">>, <<"-">>,
   <<"(","a",")">>, <<"[","b","}">>, <<"(","a","(","b",")","c",")">>}
RECURSIVE PieceNames(_)
PieceNames(n) ==
  IF n = 0 THEN {<<>>}
  ELSE PieceNames(n - 1) \cup {p \o q : p \in NamePieces, q \in PieceNames(n - 1)}

\* files that are refused, or whose name has no extension, no underscore or a leading one
OddFiles ==
  {[ImageFile(<<"K","_","1",".","p","n","g">>) EXCEPT !.isImage = FALSE],
   [ImageFile(<<"K","_","1",".","p","n","g">>) EXCEPT !.size = 3000000],
   [ImageFile(<<"K","_","1",".","p","n","g">>) EXCEPT !.loads = FALSE],
   [ImageFile(<<"K","_","1",".","p","n","g">>) EXCEPT !.width = 100, !.height = 50],
   ImageFile(<<"K","_","1">>),
   ImageFile(<<"K",".","p","n","g">>),
   ImageFile(<<"_","1",".","p","n","g">>),
   ImageFile(<<"K","_","a","_","2",".","p","n","g">>)}

\* the files the user chooses
Files ==
  {ImageFile(n \o <<"_","1",".","p","n","g">>) : n \in PieceNames(2)} \cup OddFiles

\* the selections of one change event: one file, or two of the odd files
FileLists == {<<f>> : f \in Files} \cup {<<f, g>> : f \in OddFiles, g \in OddFiles}

\* the number of files of a pool
RECURSIVE PoolSizeOver(_, _)
PoolSizeOver(pool, keys) ==
  IF keys = {} THEN 0
  ELSE LET k == CHOOSE x \in keys : TRUE
       IN  Len(pool[k]) + PoolSizeOver(pool, keys \ {k})
PoolSize(pool) == PoolSizeOver(pool, DOMAIN pool)
MaxPoolFiles == 2

\* App.tsx line 12: the pool starts empty; no document is loaded
InitUpload ==
  /\ originalBuffer = [byteLength |-> 0, valid |-> FALSE, sheets |-> <<>>]
  /\ signatures = EmptyPool
  /\ sheetData = EmptySheet
  /\ assignments = <<>>
  /\ pc = "upload"
  /\ RunStart
  /\ suspended = NoRun

\* lines 82-166: one change event of the signature input
HandleSignatureUpload ==
  /\ pc = "upload"
  /\ PoolSize(signatures) < MaxPoolFiles
  /\ \E files \in FileLists : signatures' = UploadFiles(signatures, files)
  /\ UNCHANGED <<originalBuffer, suspended, sheetData, assignments, pc, worksheet, media, snapshot,
                 imageCache, counts, i, yielded, pending, restoreCounts, result, renders,
                 outcomes, faults>>

NextUpload == HandleSignatureUpload

SpecUpload == InitUpload /\ [][NextUpload]_vars

\* the position of the closing bracket that ends the annotation opened at from: the
\* first one up to which as many brackets close as open; 0 when there is none
BracketBalance(s, from, to) ==
  Cardinality({k \in from..to : s[k] \in OpenBracket})
    - Cardinality({k \in from..to : s[k] \in CloseBracket})
MatchingClose(s, from) ==
  LET ends == {j \in (from + 1)..Len(s) :
                 s[j] \in CloseBracket /\ BracketBalance(s, from, j) = 0}
  IN  IF ends = {} THEN 0 ELSE CHOOSE j \in ends : \A y \in ends : j <= y

\* position p of s is a bracket of an annotation or stands inside one
InAnnotation(s, p) ==
  \E o \in 1..p : s[o] \in OpenBracket /\ MatchingClose(s, o) >= p

\* the letters, digits and Hangul syllables of s outside its annotations, in lower case
RECURSIVE CanonicalFrom(_, _)
CanonicalFrom(s, p) ==
  IF p > Len(s) THEN <<>>
  ELSE IF ~InAnnotation(s, p) /\ IsNameChar(s[p])
  THEN <<LowerChar(s[p])>> \o CanonicalFrom(s, p + 1)
  ELSE CanonicalFrom(s, p + 1)
Canonical(s) == CanonicalFrom(s, 1)

\* the entries of the pool
PoolEntries == UNION {Range(signatures[k]) : k \in DOMAIN signatures}

\* C17: the key normalizeName gives a name is the name's letters, digits and Hangul
\* syllables outside its bracketed annotations, in lower case (so names that differ only
\* in white space, punctuation, ASCII case or annotations get one key, and no character
\* from inside an annotation is in the key); normalizeName leaves a key unchanged.
C17_NormalizedKey ==
  \A e \in PoolEntries :
    /\ e.name = Canonical(BaseNameString(e.variant))
    /\ \A n \in DOMAIN e.name : IsLower(e.name[n]) \/ IsDigit(e.name[n]) \/ e.name[n] \in Hangul
    /\ normalizeName(e.name) = e.name

\* C18: every list of the pool is non-empty, holds no variant id twice, and each of
\* its entries is filed under its own name.
C18_PoolInvariant ==
  \A key \in DOMAIN signatures :
    LET list == signatures[key]
    IN  /\ list # <<>>
        /\ \A m, n \in DOMAIN list : m # n => list[m].variant # list[n].variant
        /\ \A n \in DOMAIN list : list[n].name = key

\* two files with different names were uploaded under one key
C18_Witness ==
  \E key \in DOMAIN signatures : Len(signatures[key]) = 2

\* C19: when the document declares no print area, no assignment with row >= 1 and
\* col >= 1 is rejected for its position, whatever the populated row and column counts:
\* one that is counted as skipped is a non-anchor cell of a merge.
C19_NoPrintAreaNoRejection ==
  (originalBuffer.sheets # <<>> /\ originalBuffer.sheets[1].printArea = NoPrintArea) =>
    \A k \in DOMAIN outcomes :
      LET a == assignments[outcomes[k].index + 1].value
      IN  (outcomes[k].counter = "skippedCount" /\ a.row >= 1 /\ a.col >= 1) =>
            NonAnchorOfMerge(a.row, a.col, originalBuffer.sheets[1].merges)

\* C20: once the main pass has ended, processedCount + failureCount + skippedCount is
\* the number of assignments, and the main pass counted every rejected placement as
\* skipped, never as a failure.
C20_OutcomeAccounting ==
  pc \in {"restore", "clear", "save", "done"} =>
    /\ counts.processedCount + counts.failureCount + counts.skippedCount = Len(assignments)
    /\ \A k \in DOMAIN outcomes :
         LET a == assignments[outcomes[k].index + 1].value
         IN  (\/ ~InArea(snapshot.printArea, a.row, a.col)
              \/ NonAnchorOfMerge(a.row, a.col, snapshot.originalMergedCells)) =>
               outcomes[k].counter = "skippedCount"

\* C21: the restoration step classifies every snapshot range once, so that
\* reappliedCount + alreadyMergedCount + errorCount is the snapshot size when it ends; a
\* range whose re-application failed stops neither the other ranges (only failed ranges
\* are missing afterwards) nor the run, which goes on to the clearing step and to
\* serialization.
C21_RestoreClassifiesAll ==
  [][pc = "restore" =>
       /\ pc' = "clear"
       /\ restoreCounts'.reappliedCount + restoreCounts'.alreadyMergedCount
            + restoreCounts'.errorCount = Len(snapshot.originalMergedCells)
       /\ Cardinality(MissingMerges') <= restoreCounts'.errorCount
       /\ restoreCounts'.alreadyMergedCount =
            Cardinality({n \in DOMAIN snapshot.originalMergedCells :
                           n \notin MissingMerges})]_vars

\* one range of two was still merged, the re-application of the other one failed, and
\* the run has reached serialization
C21_Witness ==
  /\ pc = "save"
  /\ Len(snapshot.originalMergedCells) = 2
  /\ restoreCounts = [reappliedCount |-> 0, alreadyMergedCount |-> 1, errorCount |-> 1]

\* the place of the assignment an image was anchored for in the assignment map
AssignmentOfImage(k) ==
  CHOOSE n \in DOMAIN assignments :
    <<assignments[n].value.row, assignments[n].value.col>> = ImageAt(k)

\* C22: the main pass handles the assignments once each and in the order of the map: the
\* k-th outcome is the one of the k-th assignment, the assignment in hand (also across a
\* yield and across the await of a render) is the one after the last outcome, the images
\* are anchored in the order of their assignments, and when the pass has ended every
\* assignment has its outcome.
C22_InOrderOnce ==
  /\ \A k \in DOMAIN outcomes : outcomes[k].index = k - 1
  /\ pc \in {"main", "render", "rendered"} =>
       /\ i = Len(outcomes)
       /\ i <= Len(assignments)
  /\ pc \in {"render", "rendered"} => i < Len(assignments)
  /\ pc \in {"restore", "clear", "save", "done"} => Len(outcomes) = Len(assignments)
  /\ \A m, n \in DOMAIN worksheet.images :
       m < n => AssignmentOfImage(m) < AssignmentOfImage(n)

\* sixteen assignments were handled: the run yielded before the first and before the
\* sixteenth, waited for at least one render, and placed every image
C22_Witness ==
  /\ pc = "restore"
  /\ Len(assignments) = 16
  /\ Len(renders) >= 1
  /\ counts.processedCount = 16

\* the assignments whose placement is accepted and whose cell holds a placeholder in
\* the source document
AcceptedPlaceholders ==
  {n \in DOMAIN assignments :
     LET a == assignments[n].value
     IN  /\ InArea(snapshot.printArea, a.row, a.col)
         /\ ~NonAnchorOfMerge(a.row, a.col, snapshot.originalMergedCells)
         /\ isSignaturePlaceholder(StripSpace(OriginalValue(a.row, a.col)))}

\* what holds in every state of a run: no snapshot before the load has ended and the
\* worksheet untouched until it is taken; the snapshot is the source's merges and print
\* area; no image before the pre-pass has ended; from the main pass on the text of every
\* accepted placeholder is cleared
PhaseState ==
  /\ pc = "start" => snapshot = NoSnapshot /\ worksheet = NoWorksheet
  /\ pc = "loaded" =>
       snapshot = NoSnapshot /\ worksheet = LoadWorksheet(originalBuffer.sheets[1])
  /\ pc \in {"prepass", "main", "render", "rendered", "restore", "clear", "save", "done"} =>
       /\ snapshot.originalMergedCells = originalBuffer.sheets[1].merges
       /\ snapshot.originalPrintArea = originalBuffer.sheets[1].printArea
  /\ pc \in {"start", "loaded", "prepass"} => worksheet.images = <<>> /\ media = <<>>
  /\ pc \in {"main", "render", "rendered", "restore", "clear", "save", "done"} =>
       \A n \in AcceptedPlaceholders :
         CellValue(worksheet, assignments[n].value.row, assignments[n].value.col) = <<>>

\* what holds of every step of a run: the snapshot is written once, after the load; no
\* image is registered or anchored once restoration has started; restoration counts
\* change in the restoration step only; the worksheet does not change once serialization
\* has started; a result is produced at the load or by serialization
PhaseStep ==
  /\ snapshot' # snapshot => pc = "loaded"
  /\ pc \in {"restore", "clear", "save", "done", "thrown"} =>
       worksheet'.images = worksheet.images /\ media' = media
  /\ restoreCounts' # restoreCounts => pc = "restore"
  /\ pc \in {"save", "done", "thrown"} => worksheet' = worksheet
  /\ result' # result => pc \in {"start", "save"}

\* C23: the phases of one run follow each other: snapshot before any mutation, the whole
\* pre-pass before the first image, restoration after the last image, serialization
\* after restoration and clearing.
C23_PhaseOrder == [](PhaseState) /\ [][PhaseStep]_vars

\* a run with a declared print area whose pre-pass cleared a placeholder, which placed
\* an image, merged a range again and was serialized
C23_Witness ==
  /\ pc = "done"
  /\ snapshot.originalPrintArea # NoPrintArea
  /\ AcceptedPlaceholders # {}
  /\ Len(worksheet.images) >= 1
  /\ restoreCounts.reappliedCount >= 1

\* ------------------------------------------- two runs of generateFinalExcel

\* the local variables of the run that is executing (lines 415-518: workbook, snapshot,
\* imageCache, the counters, the loop index), and where it stands
CurrentRun ==
  [pc |-> pc, worksheet |-> worksheet, media |-> media, snapshot |-> snapshot,
   imageCache |-> imageCache, counts |-> counts, i |-> i, yielded |-> yielded,
   pending |-> pending, restoreCounts |-> restoreCounts, result |-> result,
   renders |-> renders, outcomes |-> outcomes]

\* a run that has been called and has not executed a statement yet
FreshRun ==
  [pc |-> "start", worksheet |-> NoWorksheet, media |-> <<>>, snapshot |-> NoSnapshot,
   imageCache |-> <<>>,
   counts |-> [processedCount |-> 0, failureCount |-> 0, skippedCount |-> 0],
   i |-> 0, yielded |-> FALSE, pending |-> NoPending,
   restoreCounts |-> [reappliedCount |-> 0, alreadyMergedCount |-> 0, errorCount |-> 0],
   result |-> NoResult, renders |-> <<>>, outcomes |-> <<>>]

\* the run stands at an await (the load, a due yield, a render, the serialization) or
\* has ended, so that the event loop can go on with the other run
AtAwait(run) ==
  \/ run.pc \in {"start", "render", "save", "done", "thrown"}
  \/ run.pc = "main" /\ run.i < Len(assignments) /\ run.i % CHUNK_SIZE = 0 /\ ~run.yielded

\* one cache for all runs: the resumed run goes on with the cache the other run used
ResumedCache_Shared(own, current) == current
\* line 513: imageCache is a Map created inside the call, so the resumed run goes on
\* with its own
ResumedCache(own, current) == own

\* the event loop leaves the executing run at an await and resumes the other one
SwitchRun ==
  /\ suspended # NoRun
  /\ AtAwait(CurrentRun)
  /\ suspended.pc \notin {"done", "thrown"}
  /\ suspended' = CurrentRun
  /\ pc' = suspended.pc
  /\ worksheet' = suspended.worksheet
  /\ media' = suspended.media
  /\ snapshot' = suspended.snapshot
  /\ imageCache' = ResumedCache(suspended.imageCache, imageCache)
  /\ counts' = suspended.counts
  /\ i' = suspended.i
  /\ yielded' = suspended.yielded
  /\ pending' = suspended.pending
  /\ restoreCounts' = suspended.restoreCounts
  /\ result' = suspended.result
  /\ renders' = suspended.renders
  /\ outcomes' = suspended.outcomes
  /\ UNCHANGED <<originalBuffer, sheetData, signatures, assignments, faults>>

\* the document and the assignments the two runs are called with
TwoRunsDoc == [grid |-> GridLedger, merges |-> <<>>, printArea |-> NoPrintArea]

InitTwoRuns ==
  /\ originalBuffer = Buffer(TwoRunsDoc)
  /\ sheetData = parseExcelFile(TwoRunsDoc)
  /\ assignments = autoMatchSignatures(parseExcelFile(TwoRunsDoc), Pool, ConstTape(0))
  /\ signatures = Pool
  /\ pc = "start"
  /\ RunStart
  /\ suspended = FreshRun

NextTwoRuns == Next \/ SwitchRun

SpecTwoRuns == InitTwoRuns /\ [][NextTwoRuns]_vars

\* the cache key of an assignment
KeyOfAssignment(a) == CacheKey(a.signatureVariantId, a.rotation)

\* run, given by its local variables, used nothing of another run: every cache entry was
\* stored after a render of this run and names an image of this run's workbook, every
\* anchored image is one of this run's workbook, every placed assignment had its key
\* rendered by this run, and the counters are the tallies of this run's own passes
RunIsolated(run) ==
  /\ \A key \in DOMAIN run.imageCache :
       /\ run.imageCache[key] \in 0..(Len(run.media) - 1)
       /\ \E k \in DOMAIN run.renders : run.renders[k].cacheKey = key /\ run.renders[k].cached
  /\ \A k \in DOMAIN run.worksheet.images :
       run.worksheet.images[k].imageId \in 0..(Len(run.media) - 1)
  /\ \A k \in DOMAIN run.outcomes :
       run.outcomes[k].counter = "processedCount" =>
         \E r \in DOMAIN run.renders :
           /\ run.renders[r].cacheKey =
                KeyOfAssignment(assignments[run.outcomes[k].index + 1].value)
           /\ run.renders[r].cached
  /\ run.counts.processedCount =
       Cardinality({k \in DOMAIN run.outcomes : run.outcomes[k].counter = "processedCount"})
  /\ run.counts.processedCount = Len(run.worksheet.images)
  /\ run.counts.failureCount =
       Cardinality({k \in DOMAIN run.outcomes : run.outcomes[k].counter = "failureCount"})
  /\ (run.pc = "done" /\ faults = 0) =>
       /\ run.counts.processedCount = Len(assignments)
       /\ Len(run.renders) =
            Cardinality({KeyOfAssignment(assignments[n].value) : n \in DOMAIN assignments})

\* C24: when two runs over the same bytes, assignments and pool interleave at their
\* awaits, each of them looks up only cache entries it stored itself, places only
\* images of its own workbook, and ends with the placements and counters of its own
\* passes.
C24_RunIsolation ==
  /\ RunIsolated(CurrentRun)
  /\ suspended # NoRun => RunIsolated(suspended)

\* one run waits with a cached image for the key the other run, whose cache is still
\* empty, is rendering
C24_Witness ==
  /\ suspended # NoRun
  /\ pc = "render"
  /\ imageCache = <<>>
  /\ pending.cacheKey \in DOMAIN suspended.imageCache

\* ------------------------------------------------------------- termination

\* every step of the run is taken once it can be: the statements of the function run to
\* the next await, the library promises settle, a scheduled yield resumes (Yield) and an
\* image decode fires load, error or abort (RenderResolve)
Fairness ==
  /\ WF_vars(Load) /\ WF_vars(Snapshot) /\ WF_vars(PrePass)
  /\ WF_vars(Yield) /\ WF_vars(Body)
  /\ WF_vars(RenderResolve) /\ WF_vars(RenderDone)
  /\ WF_vars(MainDone) /\ WF_vars(Restore) /\ WF_vars(ClearOutside) /\ WF_vars(Save)

SpecLive == Init /\ [][Next]_vars /\ Fairness

\* C25: every run ends: it returns a blob or throws a terminal error.
C25_Terminates == <>(pc \in {"done", "thrown"})

\* a run of sixteen assignments that yielded twice, had a render fail and returned
C25_Witness ==
  /\ pc = "done"
  /\ Len(assignments) = 16
  /\ counts.failureCount >= 1
  /\ Len(renders) >= 2

\* ------------------------------------------- properties of the produced assignments

\* C27: every assignment autoMatchSignatures produces has a rotation in -5 .. 5, an
\* offsetX in -4 .. 4 and an offsetY in -2 .. 2, so that 5 + offsetX and 2 + offsetY are
\* not negative and the anchor offsets are the computed ones, not the clamp to 0.
C27_JitterRanges ==
  pc = "matched" =>
    \A n \in DOMAIN assignments :
      LET a == assignments[n].value
      IN  /\ a.rotation \in -5..5
          /\ a.offsetX \in -4..4
          /\ a.offsetY \in -2..2
          /\ 5 + a.offsetX >= 0 /\ 2 + a.offsetY >= 0
          /\ Anchor(a, 0).nativeColOff = (5 + a.offsetX) * EMU_PER_PIXEL
          /\ Anchor(a, 0).nativeRowOff = (2 + a.offsetY) * EMU_PER_PIXEL

\* a call whose draws reached both ends of every range
C27_Witness ==
  /\ pc = "matched"
  /\ \E n \in DOMAIN assignments :
       /\ assignments[n].value.rotation = 5
       /\ assignments[n].value.offsetX = -4
       /\ assignments[n].value.offsetY = -2
  /\ \E n \in DOMAIN assignments :
       /\ assignments[n].value.rotation = -5
       /\ assignments[n].value.offsetX = 4
       /\ assignments[n].value.offsetY = 2

\* C28: no marker is erased without its signature.  Once the main pass has ended, every
\* cell the pre-pass cleared carries an anchored image, and the cell of an assignment
\* that ended as a failure holds the text it held in the source document.
C28_NoMarkerErasedWithoutImage ==
  pc \in {"restore", "clear", "save", "done"} =>
    /\ \A n \in AcceptedPlaceholders :
         LET a == assignments[n].value
         IN  CellValue(worksheet, a.row, a.col) = <<>> =>
               \E k \in DOMAIN worksheet.images : ImageAt(k) = <<a.row, a.col>>
    /\ \A k \in DOMAIN outcomes :
         LET a == assignments[outcomes[k].index + 1].value
         IN  outcomes[k].counter = "failureCount" =>
               CellValue(worksheet, a.row, a.col) = OriginalValue(a.row, a.col)

\* the cells Step 3.5 gives another value or style in this step
ChangedCells ==
  {rc \in DOMAIN worksheet.cells : worksheet'.cells[rc] # worksheet.cells[rc]}

C30_AssignmentsResolveInPool ==
  pc = "matched" =>
    \A n \in DOMAIN assignments :
      LET a == assignments[n].value
      IN  /\ HeaderMatches # {}
          /\ \E r \in DOMAIN sheetData.rows :
               /\ sheetData.rows[r].index = a.row
               /\ a.signatureBaseName
                    = normalizeName(TextInColumn(r, sheetData.rows[FirstHeaderMatch[1]]
                                                      .cells[FirstHeaderMatch[2]].col))
          /\ a.signatureBaseName \in DOMAIN signatures
          /\ \E k \in DOMAIN signatures[a.signatureBaseName] :
               signatures[a.signatureBaseName][k].variant = a.signatureVariantId
          /\ findSigFile(signatures, a.signatureBaseName, a.signatureVariantId) # <<>>

\* a call that returned several assignments, one of them for the second entry of its
\* name's list
C30_Witness ==
  /\ pc = "matched"
  /\ Len(assignments) >= 2
  /\ \E n \in DOMAIN assignments :
       LET a == assignments[n].value
       IN  /\ Len(signatures[a.signatureBaseName]) >= 2
           /\ signatures[a.signatureBaseName][2].variant = a.signatureVariantId
           /\ signatures[a.signatureBaseName][1].variant # a.signatureVariantId

====
